---- MODULE Spec2Model ----
(***************************************************************************)
(* A model of the wire evaluator of year_2015/day_07.rs: the statement     *)
(* parser (Token, WireValue, LogicGate, LogicWires::add_connection) and    *)
(* the resolver (LogicWires::val) with its explicit work stack.            *)
(*                                                                         *)
(* Text is modelled as a sequence of one-character strings, a line as the  *)
(* sequence of pieces str::split_ascii_whitespace yields for it.           *)
(***************************************************************************)
EXTENDS Integers, Sequences, FiniteSets, TLC

VARIABLES
    state,            \* LogicWires::state: wire name -> u16 (the memo)
    connections,      \* LogicWires::connections: wire name -> WireSource
    ask_stack,        \* the local ask_stack of LogicWires::val
    wire,             \* the argument of the val call in progress (or last made)
    pc,               \* "idle" | "val" (inside val's loop) | "panic" (aborted)
    ret,              \* the last call made: which, how it ended, its value
    overflow_checks,  \* the build profile: TRUE panics on a shift overflow
    fed,              \* history: the statements passed to add_connection
    late_add,         \* history: an add_connection followed a val call
    rebound_resolved, \* history: the wires re-bound, to another source,
                      \* while the memo held a value for them
    state_at_call,    \* history: the memo as the last val call found it
    world,            \* day_18 World: the buffers a and b, a_src and dims
    world_ret,        \* day_18: the last call on the World and how it ended
    data,             \* 2022 day_06: the bytes passed to marker_end
    seq_len,          \* 2022 day_06: marker_end's SEQ_LEN
    marker,           \* 2022 day_06: what marker_end returned, once called
    fs,               \* 2022 day_07: the Vec of FileSystemEntry (FileSystem.0)
    nodes,            \* 2022 day_07: from_iter's stack of parent indices
    current,          \* 2022 day_07: from_iter's index of the current directory
    visit_stack,      \* 2022 day_07: the stack of visit_depth_first
    visits,           \* 2022 day_07: the visitor's calls so far, in order
    fs_pc,            \* 2022 day_07: "from_iter" | "visit" | "visited" | "panic"
    n_cmds,           \* 2022 day_07: how many Commands from_iter has taken
    stacks,           \* 2022 day_05: Stacks.0, each stack bottom first
    stacks_before,    \* 2022 day_05: Stacks.0 as the last move found it
    crane_model,      \* 2022 day_05: "9000" (part_01) or "9001" (part_02)
    last_move,        \* 2022 day_05: the StackMove of the last line, None if there is none
    crane_pc,         \* 2022 day_05: "moving" | "panic"
    n_moves,          \* 2022 day_05: how many move lines were taken
    pass,             \* 2015 day_11: the argument of next_valid_password, as bytes
    pass_bytes,       \* 2015 day_11: pass_bytes of next_valid_password
    pass_pc,          \* 2015 day_11: "loop" | "returned"
    pops,             \* history: per wire, its pops off ask_stack in the last val call
    inserts,          \* history: per wire, its inserts into state in the last val call
    move_line,        \* 2022 day_05: the str given to StackMove::from_str, split at ' '
    move_checks,      \* 2022 day_05: the build profile: TRUE panics on usize overflow
    move_ret          \* 2022 day_05: None before the call, then Some of how it ended

(* One solution runs per process (main.rs dispatches on year, day and      *)
(* part): in the sessions of one solution the variables of the others     *)
(* hold no data.                                                           *)

Absent == "absent"

wires_vars == <<state, connections, ask_stack, wire, pc, ret,
                 overflow_checks, fed, late_add, rebound_resolved,
                 state_at_call, pops, inserts>>

wires_absent ==
    /\ state = Absent
    /\ connections = Absent
    /\ ask_stack = Absent
    /\ wire = Absent
    /\ pc = Absent
    /\ ret = Absent
    /\ overflow_checks = Absent
    /\ fed = Absent
    /\ late_add = Absent
    /\ rebound_resolved = Absent
    /\ state_at_call = Absent
    /\ pops = Absent
    /\ inserts = Absent

world_vars == <<world, world_ret>>

world_absent ==
    /\ world = Absent
    /\ world_ret = Absent

marker_vars == <<data, seq_len, marker>>

marker_absent ==
    /\ data = Absent
    /\ seq_len = Absent
    /\ marker = Absent

fs_vars == <<fs, nodes, current, visit_stack, visits, fs_pc, n_cmds>>

fs_absent ==
    /\ fs = Absent
    /\ nodes = Absent
    /\ current = Absent
    /\ visit_stack = Absent
    /\ visits = Absent
    /\ fs_pc = Absent
    /\ n_cmds = Absent

crane_vars == <<stacks, stacks_before, crane_model, last_move, crane_pc,
                 n_moves>>

crane_absent ==
    /\ stacks = Absent
    /\ stacks_before = Absent
    /\ crane_model = Absent
    /\ last_move = Absent
    /\ crane_pc = Absent
    /\ n_moves = Absent

password_vars == <<pass, pass_bytes, pass_pc>>

password_absent ==
    /\ pass = Absent
    /\ pass_bytes = Absent
    /\ pass_pc = Absent

stackmove_vars == <<move_line, move_checks, move_ret>>

stackmove_absent ==
    /\ move_line = Absent
    /\ move_checks = Absent
    /\ move_ret = Absent

rest_of_wires == <<world_vars, marker_vars, fs_vars, crane_vars,
                    password_vars, stackmove_vars>>

rest_of_wires_absent ==
    /\ world_absent
    /\ marker_absent
    /\ fs_absent
    /\ crane_absent
    /\ password_absent
    /\ stackmove_absent

rest_of_world == <<wires_vars, marker_vars, fs_vars, crane_vars,
                    password_vars, stackmove_vars>>

rest_of_world_absent ==
    /\ wires_absent
    /\ marker_absent
    /\ fs_absent
    /\ crane_absent
    /\ password_absent
    /\ stackmove_absent

rest_of_marker == <<wires_vars, world_vars, fs_vars, crane_vars,
                     password_vars, stackmove_vars>>

rest_of_marker_absent ==
    /\ wires_absent
    /\ world_absent
    /\ fs_absent
    /\ crane_absent
    /\ password_absent
    /\ stackmove_absent

rest_of_fs == <<wires_vars, world_vars, marker_vars, crane_vars,
                 password_vars, stackmove_vars>>

rest_of_fs_absent ==
    /\ wires_absent
    /\ world_absent
    /\ marker_absent
    /\ crane_absent
    /\ password_absent
    /\ stackmove_absent

rest_of_crane == <<wires_vars, world_vars, marker_vars, fs_vars,
                    password_vars, stackmove_vars>>

rest_of_crane_absent ==
    /\ wires_absent
    /\ world_absent
    /\ marker_absent
    /\ fs_absent
    /\ password_absent
    /\ stackmove_absent

rest_of_password == <<wires_vars, world_vars, marker_vars, fs_vars,
                       crane_vars, stackmove_vars>>

rest_of_password_absent ==
    /\ wires_absent
    /\ world_absent
    /\ marker_absent
    /\ fs_absent
    /\ crane_absent
    /\ stackmove_absent

rest_of_stackmove == <<wires_vars, world_vars, marker_vars, fs_vars,
                        crane_vars, password_vars>>

rest_of_stackmove_absent ==
    /\ wires_absent
    /\ world_absent
    /\ marker_absent
    /\ fs_absent
    /\ crane_absent
    /\ password_absent

vars == <<state, connections, ask_stack, wire, pc, ret, overflow_checks, fed,
          late_add, rebound_resolved, state_at_call, pops, inserts, world,
          world_ret, data, seq_len, marker, fs, nodes, current, visit_stack,
          visits, fs_pc, n_cmds, stacks, stacks_before, crane_model,
          last_move, crane_pc, n_moves, pass, pass_bytes, pass_pc, move_line,
          move_checks, move_ret>>

\* ---- end of the variable groups

----------------------------------------------------------------------------
(* Bounds of the model.                                                    *)

\* the deepest work stack the model follows (the code's Vec is unbounded)
MaxStack == 5

\* the most statements a session of Spec passes to add_connection
MaxFed == 3

----------------------------------------------------------------------------
(* u16 arithmetic.                                                         *)

U16Bits == 16

RECURSIVE Pow2(_)
Pow2(n) == IF n = 0 THEN 1 ELSE 2 * Pow2(n - 1)

U16Modulus == Pow2(U16Bits)

U16Max == U16Modulus - 1

RECURSIVE BitAndN(_, _, _)
BitAndN(a, b, n) ==
    IF n = 0 THEN 0
    ELSE (IF a % 2 = 1 /\ b % 2 = 1 THEN 1 ELSE 0)
         + 2 * BitAndN(a \div 2, b \div 2, n - 1)

RECURSIVE BitOrN(_, _, _)
BitOrN(a, b, n) ==
    IF n = 0 THEN 0
    ELSE (IF a % 2 = 1 \/ b % 2 = 1 THEN 1 ELSE 0)
         + 2 * BitOrN(a \div 2, b \div 2, n - 1)

RECURSIVE BitNotN(_, _)
BitNotN(a, n) ==
    IF n = 0 THEN 0
    ELSE (1 - (a % 2)) + 2 * BitNotN(a \div 2, n - 1)

\* u16 & u16
BitAnd(a, b) == BitAndN(a, b, U16Bits)

\* u16 | u16
BitOr(a, b) == BitOrN(a, b, U16Bits)

\* !u16
BitNot(a) == BitNotN(a, U16Bits)

\* The outcome of an evaluation: Ok(v), Err(WireDependencyError(e)) or a panic.
Ok(v) == [tag |-> "Ok", v |-> v]
Err(e) == [tag |-> "Err", e |-> e]
Panic == [tag |-> "Panic"]

\* u16 << u16. A shift amount of 16 or more overflows: the build with
\* overflow checks panics, the build without them masks the amount to 4 bits.
Shl(a, n, checks) ==
    IF n >= U16Bits /\ checks THEN Panic
    ELSE Ok((a * Pow2(n % U16Bits)) % U16Modulus)

\* u16 >> u16, with the same overflow rule.
Shr(a, n, checks) ==
    IF n >= U16Bits /\ checks THEN Panic
    ELSE Ok(a \div Pow2(n % U16Bits))

----------------------------------------------------------------------------
(* Text.                                                                   *)

Digits == <<"0", "1", "2", "3", "4", "5", "6", "7", "8", "9">>

IsAsciiDigit(c) == \E i \in 1..Len(Digits) : Digits[i] = c

DigitValue(c) == (CHOOSE i \in 1..Len(Digits) : Digits[i] = c) - 1

\* char::is_alphabetic, on the letters the model's lines are written with
IsAlphabetic(c) ==
    c \in {"a", "b", "c", "d", "e", "f", "g", "h", "i", "j", "k", "l", "m",
           "n", "o", "p", "q", "r", "s", "t", "u", "v", "w", "x", "y", "z",
           "A", "B", "C", "D", "E", "F", "G", "H", "I", "J", "K", "L", "M",
           "N", "O", "P", "Q", "R", "S", "T", "U", "V", "W", "X", "Y", "Z"}

\* char::is_ascii_punctuation (the grave accent, which a TLA+ string cannot
\* hold, left out)
IsAsciiPunctuation(c) ==
    c \in {"!", "\"", "#", "$", "%", "&", "'", "(", ")", "*", "+", ",", "-",
           ".", "/", ":", ";", "<", "=", ">", "?", "@", "[", "\\", "]", "^",
           "_", "{", "|", "}", "~"}

\* str::parse::<u16>: Ok(n), or Panic where the code unwraps an Err (a
\* character that is no digit, or a number above u16::MAX).  A leading '+'
\* cannot occur: the text of a Literal token starts with a digit.
RECURSIVE ParseU16From(_, _, _)
ParseU16From(s, i, acc) ==
    IF i > Len(s) THEN Ok(acc)
    ELSE IF ~IsAsciiDigit(s[i]) THEN Panic
    ELSE LET n == acc * 10 + DigitValue(s[i])
         IN  IF n > U16Max THEN Panic ELSE ParseU16From(s, i + 1, n)

ParseU16(s) == IF Len(s) = 0 THEN Panic ELSE ParseU16From(s, 1, 0)

----------------------------------------------------------------------------
(* Token, WireValue, LogicGate, WireSource.                                *)

None == [tag |-> "None"]
Some(x) == [tag |-> "Some", x |-> x]

\* Token::parse
TokenParse(piece) ==
    IF Len(piece) = 0 THEN None
    ELSE LET first_char == piece[1]
         IN  IF IsAsciiDigit(first_char)
                 THEN Some([kind |-> "Literal", s |-> piece])
             ELSE IF IsAlphabetic(first_char)
                 THEN Some([kind |-> "Ident", s |-> piece])
             ELSE IF IsAsciiPunctuation(first_char)
                 THEN Some([kind |-> "Op", s |-> piece])
             ELSE None

\* statement.split_ascii_whitespace().filter_map(Token::parse)
RECURSIVE Tokens(_)
Tokens(pieces) ==
    IF pieces = <<>> THEN <<>>
    ELSE LET t == TokenParse(Head(pieces))
         IN  IF t.tag = "Some" THEN <<t.x>> \o Tokens(Tail(pieces))
             ELSE Tokens(Tail(pieces))

Literal(v) == [t |-> "Literal", v |-> v]
Ident(i) == [t |-> "Ident", i |-> i]

\* WireValue::from_token(..).unwrap(): Ok(WireValue), or Panic for an Op
\* token (None unwrapped) and for a Literal that is no u16.
WireValueFromToken(token) ==
    IF token.kind = "Literal"
        THEN LET p == ParseU16(token.s)
             IN  IF p.tag = "Ok" THEN Ok(Literal(p.v)) ELSE Panic
    ELSE IF token.kind = "Ident" THEN Ok(Ident(token.s))
    ELSE Panic

\* WireValueVal as it would be if it never read the memo.
WireValueValUnread(w, states) ==
    IF w.t = "Literal" THEN Ok(w.v) ELSE Err(w.i)

\* WireValueVal as it would be if a wire the memo does not hold read as 0.
WireValueValOrZero(w, states) ==
    IF w.t = "Literal" THEN Ok(w.v)
    ELSE IF w.i \in DOMAIN states THEN Ok(states[w.i])
    ELSE Ok(0)

\* WireValue::val
WireValueVal(w, states) ==
    IF w.t = "Literal" THEN Ok(w.v)
    ELSE IF w.i \in DOMAIN states THEN Ok(states[w.i])
    ELSE Err(w.i)

kNOT == <<"N", "O", "T">>
kAND == <<"A", "N", "D">>
kOR == <<"O", "R">>
kLSHIFT == <<"L", "S", "H", "I", "F", "T">>
kRSHIFT == <<"R", "S", "H", "I", "F", "T">>
kARROW == <<"-", ">">>

Gate(kind, lhs, rhs) == [src |-> "Gate", kind |-> kind, lhs |-> lhs, rhs |-> rhs]
GateNot(v) == [src |-> "Gate", kind |-> "Not", lhs |-> v]
Value(v) == [src |-> "Value", v |-> v]

\* BinaryFromTokens as it would be with the operands of a gate exchanged.
BinaryFromTokensExchanged(val1, op, val2) ==
    IF op.s = kAND THEN Ok(Gate("And", val2, val1))
    ELSE IF op.s = kOR THEN Ok(Gate("Or", val2, val1))
    ELSE IF op.s = kLSHIFT THEN Ok(Gate("LShift", val2, val1))
    ELSE IF op.s = kRSHIFT THEN Ok(Gate("RShift", val2, val1))
    ELSE Panic

\* LogicGate::binary_from_tokens(..).unwrap()
BinaryFromTokens(val1, op, val2) ==
    IF op.s = kAND THEN Ok(Gate("And", val1, val2))
    ELSE IF op.s = kOR THEN Ok(Gate("Or", val1, val2))
    ELSE IF op.s = kLSHIFT THEN Ok(Gate("LShift", val1, val2))
    ELSE IF op.s = kRSHIFT THEN Ok(Gate("RShift", val1, val2))
    ELSE Panic

\* GateApply as it would be with & and | exchanged.
GateApplyExchanged(kind, a, b, checks) ==
    IF kind = "And" THEN Ok(BitOr(a, b))
    ELSE IF kind = "Or" THEN Ok(BitAnd(a, b))
    ELSE IF kind = "LShift" THEN Shl(a, b, checks)
    ELSE Shr(a, b, checks)

\* The operator of a binary gate on two u16 values.
GateApply(kind, a, b, checks) ==
    IF kind = "And" THEN Ok(BitAnd(a, b))
    ELSE IF kind = "Or" THEN Ok(BitOr(a, b))
    ELSE IF kind = "LShift" THEN Shl(a, b, checks)
    ELSE Shr(a, b, checks)

\* LogicGateVal as it would be if it read its left operand twice.
LogicGateValLeftTwice(g, states, checks) ==
    LET l == WireValueVal(g.lhs, states)
    IN  IF l.tag = "Err" THEN l
        ELSE IF g.kind = "Not" THEN Ok(BitNot(l.v))
        ELSE GateApply(g.kind, l.v, l.v, checks)

\* LogicGate::val: the operands are read left to right, the first ? that
\* meets an Err returns it.
LogicGateVal(g, states, checks) ==
    LET l == WireValueVal(g.lhs, states)
    IN  IF l.tag = "Err" THEN l
        ELSE IF g.kind = "Not" THEN Ok(BitNot(l.v))
        ELSE LET r == WireValueVal(g.rhs, states)
             IN  IF r.tag = "Err" THEN r
                 ELSE GateApply(g.kind, l.v, r.v, checks)

\* WireSource::val
WireSourceVal(source, states, checks) ==
    IF source.src = "Gate" THEN LogicGateVal(source, states, checks)
    ELSE WireValueVal(source.v, states)

----------------------------------------------------------------------------
(* LogicWires.                                                             *)

\* Insert as it would be if it kept the value of a key it already holds.
InsertIfAbsent(map, k, v) ==
    [x \in DOMAIN map \cup {k} |-> IF x \in DOMAIN map THEN map[x] ELSE v]

\* HashMap::insert
Insert(map, k, v) == [x \in DOMAIN map \cup {k} |-> IF x = k THEN v ELSE map[x]]

EmptyMap == [x \in {} |-> 0]

\* The parse of LogicWires::add_connection: Ok with the key and the source
\* to insert, or Panic where one of its unwraps fails.  tokens.next() on an
\* exhausted iterator is None; the two bare tokens.next() calls
\* drop whatever token is there.
ParseStatement(pieces) ==
    LET tokens == Tokens(pieces)
        n == Len(tokens)
    IN  IF n < 1 THEN Panic
        ELSE IF tokens[1].s = kNOT
            THEN IF n < 2 THEN Panic
                 ELSE LET v == WireValueFromToken(tokens[2])
                      IN  IF v.tag = "Panic" THEN Panic
                          ELSE IF n < 4 THEN Panic
                          ELSE Ok([dest |-> tokens[4].s, source |-> GateNot(v.v)])
        ELSE LET val1 == WireValueFromToken(tokens[1])
             IN  IF val1.tag = "Panic" THEN Panic
                 ELSE IF n < 2 THEN Panic
                 ELSE IF tokens[2].s = kARROW
                     THEN IF n < 3 THEN Panic
                          ELSE Ok([dest |-> tokens[3].s, source |-> Value(val1.v)])
                 ELSE IF n < 3 THEN Panic
                 ELSE LET val2 == WireValueFromToken(tokens[3])
                      IN  IF val2.tag = "Panic" THEN Panic
                          ELSE LET g == BinaryFromTokens(val1.v, tokens[2], val2.v)
                               IN  IF g.tag = "Panic" THEN Panic
                                   ELSE IF n < 5 THEN Panic
                                   ELSE Ok([dest |-> tokens[5].s, source |-> g.v])

\* ret: op is the call, out how it ended ("ok", "pending" while val's loop
\* runs, or the panic), v the u16 returned, hit whether val returned from
\* the memo without entering the loop.
NoValue == 0 - 1

\* ConnectionsIndexVal as it would be if a wire without binding read as 0.
ConnectionsIndexValOrZero(conns, w, states, checks) ==
    IF w \notin DOMAIN conns THEN Ok(0)
    ELSE WireSourceVal(conns[w], states, checks)

\* self.connections[&wire].val(&self.state): HashMap's Index panics on a
\* key it does not hold.
ConnectionsIndexVal(conns, w, states, checks) ==
    IF w \notin DOMAIN conns THEN [tag |-> "PanicLookup"]
    ELSE WireSourceVal(conns[w], states, checks)

Ret(op, out, v, hit) == [op |-> op, out |-> out, v |-> v, hit |-> hit]

Init ==
    /\ state = EmptyMap
    /\ connections = EmptyMap
    /\ ask_stack = <<>>
    /\ wire = <<>>
    /\ pc = "idle"
    /\ ret = Ret("none", "ok", NoValue, FALSE)
    /\ overflow_checks \in BOOLEAN
    /\ fed = <<>>
    /\ late_add = FALSE
    /\ rebound_resolved = {}
    /\ state_at_call = EmptyMap
    /\ pops = EmptyMap
    /\ inserts = EmptyMap
    /\ rest_of_wires_absent

\* LogicWires::add_connection(statement)
AddConnection(pieces) ==
    /\ pc = "idle"
    /\ LET p == ParseStatement(pieces)
       IN  IF p.tag = "Panic"
               THEN /\ pc' = "panic"
                    /\ ret' = Ret("add_connection", "panic_parse", NoValue, FALSE)
                    /\ UNCHANGED <<connections, rebound_resolved>>
               ELSE /\ connections' = Insert(connections, p.v.dest, p.v.source)
                    /\ ret' = Ret("add_connection", "ok", NoValue, FALSE)
                    /\ rebound_resolved' =
                           IF /\ p.v.dest \in DOMAIN state
                              /\ p.v.dest \in DOMAIN connections
                              /\ connections[p.v.dest] # p.v.source
                               THEN rebound_resolved \cup {p.v.dest}
                               ELSE rebound_resolved
                    /\ UNCHANGED pc
    /\ fed' = Append(fed, pieces)
    /\ late_add' = (late_add \/ state # EmptyMap)
    /\ UNCHANGED <<state, ask_stack, wire, overflow_checks, state_at_call,
                   pops, inserts, rest_of_wires>>

\* History: how often the wire w was counted in counts, and counts with w
\* counted once more.
Times(counts, w) == IF w \in DOMAIN counts THEN counts[w] ELSE 0

Counted(counts, w) ==
    [x \in DOMAIN counts \cup {w} |->
        IF x = w THEN Times(counts, w) + 1 ELSE counts[x]]

\* ValCall as it would be without the memo's short cut.
ValCallWithoutMemo(w) ==
    /\ pc = "idle"
    /\ wire' = w
    /\ ask_stack' = <<w>>
    /\ pc' = "val"
    /\ ret' = Ret("val", "pending", NoValue, FALSE)
    /\ state_at_call' = state
    /\ pops' = EmptyMap
    /\ inserts' = EmptyMap
    /\ UNCHANGED <<state, connections, overflow_checks, fed, late_add,
                   rebound_resolved, rest_of_wires>>

\* LogicWires::val(wire), up to the loop: the memo's short cut, or the stack
\* seeded with the wire.
ValCall(w) ==
    /\ pc = "idle"
    /\ wire' = w
    /\ IF w \in DOMAIN state
           THEN /\ ret' = Ret("val", "ok", state[w], TRUE)
                /\ UNCHANGED <<pc, ask_stack>>
           ELSE /\ ask_stack' = <<w>>
                /\ pc' = "val"
                /\ ret' = Ret("val", "pending", NoValue, FALSE)
    /\ state_at_call' = state
    /\ pops' = EmptyMap
    /\ inserts' = EmptyMap
    /\ UNCHANGED <<state, connections, overflow_checks, fed, late_add,
                   rebound_resolved, rest_of_wires>>

\* AskAgain as it would be without its first push.
AskOnlyDependency(rest, w, e) == rest \o <<e>>

\* The Err arm of val's loop: ask_stack.push(wire); ask_stack.push(e.0)
AskAgain(rest, w, e) == rest \o <<w, e>>

\* One turn of the loop over ask_stack.pop(), or, once the stack
\* is empty, the return of self.state[wire] (an Index that panics on a key
\* the memo does not hold).  The stack's top is its last element.  A push
\* beyond MaxStack is not followed.
ValStep ==
    /\ pc = "val"
    /\ IF ask_stack = <<>>
           THEN /\ IF wire \in DOMAIN state
                       THEN /\ pc' = "idle"
                            /\ ret' = Ret("val", "ok", state[wire], FALSE)
                       ELSE /\ pc' = "panic"
                            /\ ret' = Ret("val", "panic_lookup", NoValue, FALSE)
                /\ UNCHANGED <<state, ask_stack, pops, inserts>>
           ELSE LET top == ask_stack[Len(ask_stack)]
                    rest == SubSeq(ask_stack, 1, Len(ask_stack) - 1)
                    r == ConnectionsIndexVal(connections, top, state, overflow_checks)
                IN  /\ pops' = Counted(pops, top)
                    /\ IF r.tag = "Ok"
                           THEN /\ state' = Insert(state, top, r.v)
                                /\ inserts' = Counted(inserts, top)
                                /\ ask_stack' = rest
                                /\ UNCHANGED <<pc, ret>>
                       ELSE IF r.tag = "Err"
                           THEN /\ Len(ask_stack) < MaxStack
                                /\ ask_stack' = AskAgain(rest, top, r.e)
                                /\ UNCHANGED <<state, inserts, pc, ret>>
                       ELSE /\ pc' = "panic"
                            /\ ask_stack' = rest
                            /\ ret' = Ret("val",
                                          IF r.tag = "PanicLookup"
                                              THEN "panic_lookup"
                                              ELSE "panic_shift",
                                          NoValue, FALSE)
                            /\ UNCHANGED <<state, inserts>>
    /\ UNCHANGED <<connections, wire, overflow_checks, fed, late_add,
                   rebound_resolved, state_at_call, rest_of_wires>>

----------------------------------------------------------------------------
(* The sessions of Spec: any interleaving of add_connection, on the lines  *)
(* of SessionLines, and val, on the wires those lines name.                *)

\* The decimal text of n.
RECURSIVE Dec(_)
Dec(n) ==
    IF n < 10 THEN <<Digits[n + 1]>>
    ELSE Dec(n \div 10) \o <<Digits[(n % 10) + 1]>>

wa == <<"a">>
wb == <<"b">>
wc == <<"c">>

Wires == {wa, wb, wc}

SessionLines ==
    { <<Dec(123), kARROW, wa>>,
      <<Dec(456), kARROW, wa>>,
      <<wb, kARROW, wa>>,
      <<wa, kARROW, wb>>,
      <<wa, kLSHIFT, Dec(16), kARROW, wb>>,
      <<wa, kAND, wb, kARROW, wc>>,
      <<kNOT, wb, kARROW, wc>>,
      <<wb, kOR, wc, kARROW, wc>> }

Next ==
    \/ \E line \in SessionLines : Len(fed) < MaxFed /\ AddConnection(line)
    \/ \E w \in Wires : ValCall(w)
    \/ ValStep

Spec == Init /\ [][Next]_vars

\* val's loop runs on once entered: the program has one thread.
LiveSpec == Init /\ [][Next]_vars /\ WF_vars(ValStep)

(***************************************************************************)
(* The sessions of GateSpec: a literal for x, then one statement for d, a  *)
(* gate whose operands are x or literals; val on either wire.              *)
(***************************************************************************)

wx == <<"x">>
wd == <<"d">>

GateWires == {wx, wd}

\* The operand values the gates are tried on.
Sample == {0, 2, 16, 123, 456, 65535}

BinaryKeywords == {kAND, kOR, kLSHIFT, kRSHIFT}

GateOperands == {wx} \cup {Dec(v) : v \in Sample}

GateLines(k) ==
    IF k = 0 THEN { <<Dec(v), kARROW, wx>> : v \in Sample }
    ELSE IF k = 1
        THEN { <<l, op, r, kARROW, wd>> :
                   l \in GateOperands, op \in BinaryKeywords, r \in GateOperands }
             \cup { <<kNOT, l, kARROW, wd>> : l \in GateOperands }
    ELSE {}

GateNext ==
    \/ \E line \in GateLines(Len(fed)) : AddConnection(line)
    \/ \E w \in GateWires : ValCall(w)
    \/ ValStep

GateSpec == Init /\ [][GateNext]_vars

----------------------------------------------------------------------------
(* The sessions of ParseSpec: add_connection on every line of up to        *)
(* MaxPieces pieces drawn from ParsePieces.                                 *)

\* the longest line, in pieces, that ParseSpec passes to add_connection
MaxPieces == 5

\* the most statements a session of ParseSpec passes to add_connection
MaxParses == 1

kXOR == <<"X", "O", "R">>

ParsePieces == {Dec(7), wx, kNOT, kAND, kXOR, kARROW}

ParseLines == UNION { [1..n -> ParsePieces] : n \in 0..MaxPieces }

ParseNext == \E line \in ParseLines : Len(fed) < MaxParses /\ AddConnection(line)

ParseSpec == Init /\ [][ParseNext]_vars

----------------------------------------------------------------------------
(* What the properties below are stated with: the dependency graph of a    *)
(* connection map and the value an expression denotes.                     *)

Bit(v, i) == (v \div Pow2(i)) % 2

BitPositions == 0..(U16Bits - 1)

U16 == 0..U16Max

\* The operands of a source, left to right.
Operands(source) ==
    IF source.src = "Value" THEN <<source.v>>
    ELSE IF source.kind = "Not" THEN <<source.lhs>>
    ELSE <<source.lhs, source.rhs>>

\* The wires a source refers to.
Refs(source) ==
    { Operands(source)[i].i :
          i \in { j \in 1..Len(Operands(source)) : Operands(source)[j].t = "Ident" } }

\* The wires n depends on directly.  With memo, a wire the memo holds
\* depends on nothing: val never looks behind a resolved wire.
Deps(conns, memo, n) ==
    IF n \in DOMAIN conns /\ n \notin DOMAIN memo THEN Refs(conns[n]) ELSE {}

RECURSIVE Closure(_, _, _)
Closure(conns, memo, S) ==
    LET T == S \cup UNION { Deps(conns, memo, n) : n \in S }
    IN  IF T = S THEN S ELSE Closure(conns, memo, T)

\* n and all it depends on, directly or transitively.
Reach(conns, memo, n) == Closure(conns, memo, {n})

OnCycle(conns, memo, n) == n \in Closure(conns, memo, Deps(conns, memo, n))

Acyclic(conns, memo, n) == \A m \in Reach(conns, memo, n) : ~OnCycle(conns, memo, m)

FullyBound(conns, memo, n) == Reach(conns, memo, n) \subseteq DOMAIN conns

\* The value of the operand w where the memo holds every wire it names.
OperandValue(w, memo) == IF w.t = "Literal" THEN w.v ELSE memo[w.i]

\* The value n's expression defines recursively under conns: Ok(v), or
\* why there is none (a wire without binding, a cycle, an aborting gate).
\* fuel bounds the depth: a chain of more bound wires than conns holds
\* repeats one.
RECURSIVE Denote(_, _, _, _)
Denote(conns, n, fuel, checks) ==
    IF n \notin DOMAIN conns THEN [tag |-> "Unbound"]
    ELSE IF fuel = 0 THEN [tag |-> "Cycle"]
    ELSE LET s == conns[n]
             opnd(w) == IF w.t = "Literal" THEN Ok(w.v)
                        ELSE Denote(conns, w.i, fuel - 1, checks)
         IN  IF s.src = "Value" THEN opnd(s.v)
             ELSE LET l == opnd(s.lhs)
                  IN  IF l.tag # "Ok" THEN l
                      ELSE IF s.kind = "Not" THEN Ok(BitNot(l.v))
                      ELSE LET r == opnd(s.rhs)
                           IN  IF r.tag # "Ok" THEN r
                               ELSE GateApply(s.kind, l.v, r.v, checks)

ValueOf(conns, n, checks) == Denote(conns, n, Cardinality(DOMAIN conns), checks)

\* The last call was val and it returned a value.
ValReturned == pc = "idle" /\ ret.op = "val" /\ ret.out = "ok"

\* The last call was val and it is over: it returned or it aborted.
ValEnded == ret.op = "val" /\ pc \in {"idle", "panic"}

----------------------------------------------------------------------------
(* C2: for all 16-bit operand values a and b, literal or wire-valued,      *)
(* 'a AND b' resolves to the bitwise and, 'a OR b' to the bitwise or and   *)
(* 'NOT a' to 65535 - a; every resolved value lies in 0..65535; x = 123    *)
(* and y = 456 give AND 72, OR 507, NOT x 65412, NOT y 65079.              *)
(* Checked under GateSpec, where no wire is re-bound: a resolved gate's    *)
(* operands are the literals of its statement and the memo's value of x.   *)
(***************************************************************************)
C2_BitwiseGates ==
    \A n \in DOMAIN state :
        /\ state[n] \in U16
        /\ LET s == connections[n]
           IN  s.src = "Gate" /\ s.kind \in {"And", "Or", "Not"} =>
                   LET a == OperandValue(s.lhs, state)
                       b == IF s.kind = "Not" THEN 0 ELSE OperandValue(s.rhs, state)
                       v == state[n]
                   IN  /\ s.kind = "And" =>
                              /\ \A i \in BitPositions :
                                     Bit(v, i) = 1 <=> (Bit(a, i) = 1 /\ Bit(b, i) = 1)
                              /\ (a = 123 /\ b = 456) => v = 72
                       /\ s.kind = "Or" =>
                              /\ \A i \in BitPositions :
                                     Bit(v, i) = 1 <=> (Bit(a, i) = 1 \/ Bit(b, i) = 1)
                              /\ (a = 123 /\ b = 456) => v = 507
                       /\ s.kind = "Not" =>
                              /\ v = 65535 - a
                              /\ a = 123 => v = 65412
                              /\ a = 456 => v = 65079

\* x = 123 is resolved and d, bound to x AND 456, is resolved to 72.
C2_Witness ==
    /\ wx \in DOMAIN state /\ state[wx] = 123
    /\ wd \in DOMAIN state /\ state[wd] = 72
    /\ connections[wd] = Gate("And", Ident(wx), Literal(456))

----------------------------------------------------------------------------
(* C3: 'a LSHIFT n' resolves to (a * 2^n) mod 65536 and 'a RSHIFT n' to    *)
(* floor(a / 2^n), for every 16-bit a and every 16-bit shift amount n,     *)
(* 16 and more included, and the evaluation never aborts on a shift.       *)
(* For n >= 16 both values are 0: 65536 divides 2^n, and a < 2^n.          *)
(***************************************************************************)
MathShl(a, n) == IF n >= U16Bits THEN 0 ELSE (a * Pow2(n)) % U16Modulus

MathShr(a, n) == IF n >= U16Bits THEN 0 ELSE a \div Pow2(n)

C3_ShiftsAreTotal ==
    /\ ret.out # "panic_shift"
    /\ \A n \in DOMAIN state :
           LET s == connections[n]
           IN  s.src = "Gate" /\ s.kind \in {"LShift", "RShift"} =>
                   LET a == OperandValue(s.lhs, state)
                       b == OperandValue(s.rhs, state)
                   IN  state[n] = IF s.kind = "LShift" THEN MathShl(a, b)
                                  ELSE MathShr(a, b)

----------------------------------------------------------------------------
(* C1: when the last call val(n) is over, the sub-graph reachable from n   *)
(* is acyclic and fully bound, and no wire reachable from n was re-bound   *)
(* to another source after it was resolved, val(n) returned exactly the    *)
(* value n's source defines recursively (a literal its constant, a wire    *)
(* the value of that wire, a gate LogicGate::val's operator on its         *)
(* operands' values), whatever earlier calls had resolved; where that      *)
(* recursion aborts on a shift, val(n) aborted on that shift.              *)
(***************************************************************************)
C1_NoStaleMemo == Reach(connections, EmptyMap, wire) \cap rebound_resolved = {}

C1_Graph ==
    /\ ValEnded
    /\ Acyclic(connections, EmptyMap, wire)
    /\ FullyBound(connections, EmptyMap, wire)

----------------------------------------------------------------------------
(* C4: after add_connection has bound d a second time to another source,   *)
(* every later val(d) that returns, returns the value of the most recent   *)
(* binding, provided neither d nor a wire d reaches was re-bound to        *)
(* another source after it had been resolved.                              *)
(***************************************************************************)
\* The positions of the lines fed that bind d.
BindingsOf(lines, d) ==
    { i \in 1..Len(lines) :
          /\ ParseStatement(lines[i]).tag = "Ok"
          /\ ParseStatement(lines[i]).v.dest = d }

\* The source of the last line fed that binds d.
MostRecentSource(lines, d) ==
    LET last == CHOOSE i \in BindingsOf(lines, d) :
                    \A j \in BindingsOf(lines, d) : j <= i
    IN  ParseStatement(lines[last]).v.source

\* d was bound at least twice, to sources that differ.
Rebound(lines, d) ==
    \E i, j \in BindingsOf(lines, d) :
        ParseStatement(lines[i]).v.source # ParseStatement(lines[j]).v.source

C4_ValOfMostRecent ==
    /\ connections[wire] = MostRecentSource(fed, wire)
    /\ ValueOf(connections, wire, overflow_checks) = Ok(ret.v)

C4_MostRecentBinding ==
    (ValReturned /\ Rebound(fed, wire) /\ C1_NoStaleMemo) => C4_ValOfMostRecent

\* a was bound to 123, then to 456, and the first val(a) returned 456.
C4_Witness ==
    /\ ValReturned /\ ~ret.hit /\ wire = wa /\ C1_NoStaleMemo
    /\ Len(fed) >= 2
    /\ fed[1] = <<Dec(123), kARROW, wa>>
    /\ fed[2] = <<Dec(456), kARROW, wa>>
    /\ ret.v = 456

\* C4 as stated: whenever the re-binding happens.
C4_AsStated == (ValReturned /\ Rebound(fed, wire)) => C4_ValOfMostRecent

----------------------------------------------------------------------------
(* C5: a call val(n) for a wire the memo holds (n was resolved by an       *)
(* earlier call) returns at once the memo's value: it pushes nothing on    *)
(* ask_stack, evaluates no source and leaves state and connections as      *)
(* they are; it returns the value the call before returned for the same    *)
(* wire, and no step changes a value the memo holds.                       *)
(***************************************************************************)
C5_MemoShortCut ==
    [][ /\ \A n \in DOMAIN state : n \in DOMAIN state' /\ state'[n] = state[n]
        /\ (pc = "idle" /\ ret'.op = "val" /\ wire' \in DOMAIN state) =>
               /\ pc' = "idle"
               /\ ret' = Ret("val", "ok", state[wire'], TRUE)
               /\ UNCHANGED <<state, connections, ask_stack>>
               /\ (ValReturned /\ wire' = wire) => ret'.v = ret.v
      ]_vars

\* A call of val was answered from the memo: c = NOT b was resolved by an
\* earlier call.
C5_Witness ==
    /\ ValReturned /\ ret.hit /\ wire = wc
    /\ connections[wc] = GateNot(Ident(wb))
    /\ ask_stack = <<>>

----------------------------------------------------------------------------
(* C6: for every finite set of well-formed statements with pairwise        *)
(* distinct destinations, fed to add_connection in any order before the    *)
(* first val, val has the same result for every wire: the value, the       *)
(* abort on a wire without binding or the abort on a shift that the        *)
(* statements define in every other order; a statement that refers to a    *)
(* wire bound by a later statement resolves once all are fed.              *)
(***************************************************************************)
\* connections after add_connection on each of lines, in their order.
RECURSIVE LoadAll(_)
LoadAll(lines) ==
    IF lines = <<>> THEN EmptyMap
    ELSE LET p == ParseStatement(lines[Len(lines)])
         IN  Insert(LoadAll(SubSeq(lines, 1, Len(lines) - 1)), p.v.dest, p.v.source)

\* lines in every order.
Permuted(lines) ==
    { [i \in 1..Len(lines) |-> lines[q[i]]] : q \in Permutations(1..Len(lines)) }

DistinctDests(lines) ==
    \A i, j \in 1..Len(lines) :
        i # j => ParseStatement(lines[i]).v.dest # ParseStatement(lines[j]).v.dest

\* How the last call of val ended, in the terms of ValueOf.
ValOutcome ==
    IF pc = "idle" THEN Ok(ret.v)
    ELSE IF ret.out = "panic_lookup" THEN [tag |-> "Unbound"]
    ELSE Panic

C6_SameInEveryOrder ==
    \A q \in Permuted(fed) :
        ValueOf(LoadAll(q), wire, overflow_checks) = ValOutcome

C6_OrderIndependence ==
    (ValEnded /\ ~late_add /\ DistinctDests(fed)) => C6_SameInEveryOrder

\* a -> b was fed before a's own binding 123 -> a; val(c), c = NOT b,
\* returned 65412.
C6_Witness ==
    /\ ValReturned /\ ~late_add /\ DistinctDests(fed)
    /\ fed = << <<wa, kARROW, wb>>, <<Dec(123), kARROW, wa>>,
                <<kNOT, wb, kARROW, wc>> >>
    /\ wire = wc
    /\ ret.v = 65412

\* C6 as stated, for every set of well-formed statements.
C6_AsStated == (ValEnded /\ ~late_add) => C6_SameInEveryOrder

----------------------------------------------------------------------------
(* C7: while val(n) runs and n, or a wire n reaches through wires not yet  *)
(* resolved in an otherwise acyclic graph, has no binding, val(n) does     *)
(* not return, with 0 or any other value, and it ends in a panic.  A wire  *)
(* the memo holds hides what its present binding refers to.                *)
(***************************************************************************)
C7_UnboundAhead ==
    /\ pc = "val"
    /\ Acyclic(connections, state, wire)
    /\ ~FullyBound(connections, state, wire)

C7_UnboundAborts ==
    /\ [][C7_UnboundAhead => pc' # "idle"]_vars
    /\ (C7_UnboundAhead ~> pc = "panic")

\* val(c) aborted on the lookup of b: c = NOT b is bound, b is not.
C7_Witness ==
    /\ pc = "panic" /\ ret.op = "val" /\ ret.out = "panic_lookup"
    /\ wire = wc
    /\ wc \in DOMAIN connections
    /\ connections[wc] = GateNot(Ident(wb))
    /\ wb \notin DOMAIN connections
    /\ Acyclic(connections, state, wire)

\* C7 as stated, over the bindings alone: no call returns a value while a
\* wire it reaches in an acyclic graph has no binding.
C7_AsStated ==
    ~(/\ ValReturned
      /\ Acyclic(connections, EmptyMap, wire)
      /\ ~FullyBound(connections, EmptyMap, wire))

----------------------------------------------------------------------------
(* C8: add_connection aborts, and inserts no binding, for every line that  *)
(* is not exactly one of the shapes 'value -> dest', 'NOT value -> dest',  *)
(* 'value OP value -> dest' with OP one of AND, OR, LSHIFT, RSHIFT: too    *)
(* few or too many tokens, a missing '->' and an unknown operator are all  *)
(* fatal.  The shapes are read generously here: any piece may stand for a  *)
(* value or a destination.                                                 *)
(***************************************************************************)
C8_Shape(line) ==
    \/ Len(line) = 3 /\ line[2] = kARROW
    \/ Len(line) = 4 /\ line[1] = kNOT /\ line[3] = kARROW
    \/ Len(line) = 5 /\ line[2] \in BinaryKeywords /\ line[4] = kARROW

C8_MalformedIsFatal ==
    (ret.op = "add_connection" /\ ~C8_Shape(fed[Len(fed)])) =>
        /\ pc = "panic"
        /\ Len(fed) = 1 => connections = EmptyMap

----------------------------------------------------------------------------
(* C9: val(t) terminates, with ask_stack empty and t in the memo, whenever *)
(* every wire t reaches is bound and the sub-graph t reaches is acyclic,   *)
(* whatever connections holds elsewhere: such a call does not abort, its   *)
(* loop can always take its next step, and when it is over the stack is    *)
(* empty and the memo holds t.                                             *)
(***************************************************************************)
C9_Terminates ==
    (/\ ret.op = "val"
     /\ Acyclic(connections, EmptyMap, wire)
     /\ FullyBound(connections, EmptyMap, wire)) =>
        /\ pc # "panic"
        /\ pc = "val" => ENABLED ValStep
        /\ pc = "idle" => ask_stack = <<>> /\ wire \in DOMAIN state

----------------------------------------------------------------------------
(* C10: while val(t) runs, every wire t reaches through wires not yet      *)
(* resolved is bound, and t so reaches a wire on a cycle of unresolved     *)
(* wires (t itself included), val(t) does not return and reports no cycle: *)
(* no step resolves a wire on the cycle, the only way the loop ends is the *)
(* abort of a shift, and short of that ask_stack grows to any bound.       *)
(***************************************************************************)
C10_CycleAhead ==
    /\ pc = "val"
    /\ FullyBound(connections, state, wire)
    /\ \E m \in Reach(connections, state, wire) : OnCycle(connections, state, m)

----------------------------------------------------------------------------
(* C11: in every reachable state, each wire the memo holds that reaches,   *)
(* under the present connections, no wire re-bound to another source       *)
(* after it was resolved, has every wire it transitively depends on in     *)
(* the memo too.                                                           *)
(***************************************************************************)
C11_Closed(n) == Reach(connections, EmptyMap, n) \subseteq DOMAIN state

C11_ResolvedAreClosed ==
    \A n \in DOMAIN state :
        Reach(connections, EmptyMap, n) \cap rebound_resolved = {} => C11_Closed(n)

\* c = a AND b is resolved, after an add_connection that followed a val,
\* and so are b = a and a.
C11_Witness ==
    /\ late_add /\ rebound_resolved = {}
    /\ DOMAIN state = {wa, wb, wc}
    /\ connections[wc] = Gate("And", Ident(wa), Ident(wb))
    /\ connections[wb] = Value(Ident(wa))

\* C11 as stated, for every wire the memo holds.
C11_AsStated == \A n \in DOMAIN state : C11_Closed(n)

----------------------------------------------------------------------------
(* C12: the memo only grows: no step removes an entry or changes its       *)
(* value, and a wire the memo holds is never on ask_stack, so it is        *)
(* neither pushed nor evaluated again.                                     *)
(***************************************************************************)
C12_StackUnresolved ==
    \A i \in 1..Len(ask_stack) : ask_stack[i] \notin DOMAIN state

C12_MemoOnlyGrows ==
    /\ []C12_StackUnresolved
    /\ [][ /\ \A n \in DOMAIN state : n \in DOMAIN state' /\ state'[n] = state[n]
           /\ (pc = "val" /\ ask_stack # <<>>) =>
                  /\ ask_stack[Len(ask_stack)] \notin DOMAIN state
                  /\ DOMAIN state' \subseteq
                         DOMAIN state \cup {ask_stack[Len(ask_stack)]}
         ]_vars

\* val(c) runs its loop over c = a AND b while the memo holds a and b from
\* earlier calls.
C12_Witness ==
    /\ pc = "val" /\ wire = wc /\ ask_stack = <<wc>>
    /\ DOMAIN state = {wa, wb}
    /\ connections[wc] = Gate("And", Ident(wa), Ident(wb))

----------------------------------------------------------------------------
(* C13: a call val(t) adds to the memo exactly t and the wires t reaches   *)
(* through wires the memo did not hold at the call; a wire t does not so   *)
(* reach is neither put on ask_stack, evaluated nor added, while the call  *)
(* runs and when it is over, and the entries the memo held at the call     *)
(* keep their values.                                                      *)
(***************************************************************************)
\* The wires the memo gained since the last call of val.
C13_Added == DOMAIN state \ DOMAIN state_at_call

C13_Kept ==
    \A n \in DOMAIN state_at_call :
        n \in DOMAIN state /\ state[n] = state_at_call[n]

C13_ValAddsItsDependencies ==
    ret.op = "val" =>
        LET R == Reach(connections, state_at_call, wire)
        IN  /\ C13_Kept
            /\ C13_Added \subseteq R
            /\ \A i \in 1..Len(ask_stack) : ask_stack[i] \in R
            /\ ValReturned => C13_Added = R \ DOMAIN state_at_call

\* val(b), b = a, returned with a in the memo from an earlier call: the
\* memo gained b alone, and c, bound but not reached, is not in it.
C13_Witness ==
    /\ ValReturned /\ wire = wb
    /\ DOMAIN state_at_call = {wa}
    /\ DOMAIN state = {wa, wb}
    /\ connections[wb] = Value(Ident(wa))
    /\ wc \in DOMAIN connections

\* C13 as stated, with the dependencies of t under connections alone.
C13_AsStated ==
    ValReturned =>
        /\ C13_Kept
        /\ C13_Added = Reach(connections, EmptyMap, wire) \ DOMAIN state_at_call

----------------------------------------------------------------------------
(* C14: add_connection for a well-formed statement with destination d      *)
(* returns with d bound to the expression the statement writes, whatever   *)
(* d was bound to before, every other binding as it was, and the memo      *)
(* (with val's stack and the wire last asked for) unchanged.               *)
(***************************************************************************)
\* What a value of a statement stands for: a decimal literal or a wire.
C14_Operand(piece) ==
    IF \E n \in Sample : Dec(n) = piece
        THEN Literal(CHOOSE n \in Sample : Dec(n) = piece)
        ELSE Ident(piece)

C14_Values == Wires \cup {Dec(n) : n \in Sample}

C14_WellFormed(line) ==
    /\ C8_Shape(line)
    /\ line[Len(line)] \in Wires
    /\ Len(line) = 3 => line[1] \in C14_Values
    /\ Len(line) = 4 => line[2] \in C14_Values
    /\ Len(line) = 5 => line[1] \in C14_Values /\ line[3] \in C14_Values

\* The expression a well-formed statement writes.
C14_Expression(line) ==
    IF Len(line) = 3 THEN Value(C14_Operand(line[1]))
    ELSE IF Len(line) = 4 THEN GateNot(C14_Operand(line[2]))
    ELSE Gate(IF line[2] = kAND THEN "And"
              ELSE IF line[2] = kOR THEN "Or"
              ELSE IF line[2] = kLSHIFT THEN "LShift"
              ELSE "RShift",
              C14_Operand(line[1]), C14_Operand(line[3]))

C14_AddConnectionFrame ==
    [][ (ret'.op = "add_connection" /\ Len(fed') = Len(fed) + 1
            /\ C14_WellFormed(fed'[Len(fed')])) =>
            LET line == fed'[Len(fed')]
                d == line[Len(line)]
            IN  /\ pc' = "idle" /\ ret'.out = "ok"
                /\ DOMAIN connections' = DOMAIN connections \cup {d}
                /\ connections'[d] = C14_Expression(line)
                /\ \A n \in DOMAIN connections \ {d} :
                       connections'[n] = connections[n]
                /\ UNCHANGED <<state, ask_stack, wire>>
      ]_vars

\* add_connection has bound a anew, to 456, while the memo holds 123 for a
\* and b is still bound to a.
C14_Witness ==
    /\ ret.op = "add_connection" /\ pc = "idle"
    /\ fed = << <<Dec(123), kARROW, wa>>, <<wa, kARROW, wb>>,
                <<Dec(456), kARROW, wa>> >>
    /\ connections = [x \in {wa, wb} |->
                         IF x = wa THEN Value(Literal(456)) ELSE Value(Ident(wa))]
    /\ state = [x \in {wa} |-> 123]

----------------------------------------------------------------------------
(* year_2015/day_18.rs: World, a grid of lights in two buffers, a and b.   *)
(* a_src tells which buffer is current; step computes the other one from   *)
(* it and exchanges them.  A row is a sequence of booleans; the code's     *)
(* index k is the model's k + 1.                                           *)

\* the most rows of a World of WorldSpec
MaxRows == 2

\* the most columns of a World of WorldSpec
MaxCols == 3

\* World::from_data, on lines of '#' and '.' already read as booleans
WorldFromData(lines) ==
    [a |-> lines, b |-> lines, a_src |-> TRUE,
     dims |-> <<Len(lines), Len(lines[1])>>]

\* World::current
WorldCurrent(wld) == IF wld.a_src THEN wld.a ELSE wld.b

\* The buffer step writes, which after a step holds the generation before.
WorldOther(wld) == IF wld.a_src THEN wld.b ELSE wld.a

\* idxs of World::step: (i / 3 - 1, i % 3 - 1) for i in 0..9 except 4
idxs ==
    [k \in 1..8 |->
        LET i == IF k <= 4 THEN k - 1 ELSE k
        IN  <<(i \div 3) - 1, (i % 3) - 1>>]

\* usize::try_from(n).expect(..) for an isize n
UsizeTryFrom(n) == IF n < 0 THEN Panic ELSE Ok(n)

\* <[T]>::get
SliceGet(v, k) == IF k < Len(v) THEN Some(v[k + 1]) ELSE None

\* living_neighbors of World::step: the sum over idxs, from the k-th on,
\* or the panic of the first conversion that fails.
RECURSIVE LivingNeighborsFrom(_, _, _, _, _)
LivingNeighborsFrom(src, i, j, k, acc) ==
    IF k > Len(idxs) THEN Ok(acc)
    ELSE LET u == UsizeTryFrom(i + idxs[k][1])
         IN  IF u.tag = "Panic" THEN Panic
             ELSE LET sr == SliceGet(src, u.v)
                  IN  IF sr = None
                          THEN LivingNeighborsFrom(src, i, j, k + 1, acc)
                      ELSE LET v == UsizeTryFrom(j + idxs[k][2])
                           IN  IF v.tag = "Panic" THEN Panic
                               ELSE LET c == SliceGet(sr.x, v.v)
                                    IN  LivingNeighborsFrom(src, i, j, k + 1,
                                            IF c # None /\ c.x THEN acc + 1
                                            ELSE acc)

LivingNeighbors(src, i, j) == LivingNeighborsFrom(src, i, j, 1, 0)

\* matches!((prev, living_neighbors), (true, 2 | 3) | (false, 3))
LightMatches(prev, n) == (prev /\ n \in {2, 3}) \/ (~prev /\ n = 3)

\* The loops of World::step over dest, from cell (i, j) on: dest as they
\* leave it, and whether they ended in a panic.
RECURSIVE StepCells(_, _, _, _)
StepCells(src, dest, i, j) ==
    IF i >= Len(dest) THEN [dest |-> dest, panic |-> FALSE]
    ELSE IF j >= Len(dest[i + 1]) THEN StepCells(src, dest, i + 1, 0)
    ELSE LET n == LivingNeighbors(src, i, j)
         IN  IF n.tag = "Panic" THEN [dest |-> dest, panic |-> TRUE]
             ELSE StepCells(src,
                            [dest EXCEPT ![i + 1][j + 1] =
                                LightMatches(src[i + 1][j + 1], n.v)],
                            i, j + 1)

WorldRet(op, out) == [op |-> op, out |-> out]

\* World::step
WorldStep ==
    /\ world_ret.out = "ok"
    /\ LET r == StepCells(WorldCurrent(world), WorldOther(world), 0, 0)
           written == IF world.a_src THEN [world EXCEPT !.b = r.dest]
                      ELSE [world EXCEPT !.a = r.dest]
       IN  IF r.panic
               THEN /\ world' = written
                    /\ world_ret' = WorldRet("step", "panic")
               ELSE /\ world' = [written EXCEPT !.a_src = ~world.a_src]
                    /\ world_ret' = WorldRet("step", "ok")
    /\ UNCHANGED rest_of_world

\* World::enable_corners.  Without a column, dims.1 - 1 overflows or, where
\* that wraps, src[0][0] is out of bounds: a panic in either build.
WorldEnableCorners ==
    /\ world_ret.out = "ok"
    /\ IF world.dims[2] = 0
           THEN /\ world_ret' = WorldRet("enable_corners", "panic")
                /\ UNCHANGED world
           ELSE LET last == <<world.dims[1] - 1, world.dims[2] - 1>>
                    lit == [WorldCurrent(world) EXCEPT
                               ![1][1] = TRUE,
                               ![1][last[2] + 1] = TRUE,
                               ![last[1] + 1][1] = TRUE,
                               ![last[1] + 1][last[2] + 1] = TRUE]
                IN  /\ world' = IF world.a_src THEN [world EXCEPT !.a = lit]
                                ELSE [world EXCEPT !.b = lit]
                    /\ world_ret' = WorldRet("enable_corners", "ok")
    /\ UNCHANGED rest_of_world

\* The rectangular grids of at most MaxRows rows and MaxCols columns.
WorldGrids ==
    UNION { [1..h -> [1..w -> BOOLEAN]] : h \in 1..MaxRows, w \in 0..MaxCols }

WorldInit ==
    /\ world \in { WorldFromData(g) : g \in WorldGrids }
    /\ world_ret = WorldRet("from_data", "ok")
    /\ rest_of_world_absent

WorldNext == WorldStep \/ WorldEnableCorners

WorldSpec == WorldInit /\ [][WorldNext]_vars

----------------------------------------------------------------------------
(* C15: World::step never aborts and leaves as the current grid the next   *)
(* generation of the grid before, all cells computed from that grid: a     *)
(* light that is on stays on iff 2 or 3 of its up to 8 neighbours are on,  *)
(* one that is off turns on iff exactly 3 are, and what lies outside the   *)
(* grid counts as off; for every cell of every rectangular grid with a     *)
(* cell, those on the edges and in the corners included.                   *)
(***************************************************************************)
\* How many neighbours of cell (r, c) of grid g, rows and columns counted
\* from 1, are on.
NeighboursOn(g, r, c) ==
    Cardinality({ p \in ((r - 1)..(r + 1)) \X ((c - 1)..(c + 1)) :
                      /\ p # <<r, c>>
                      /\ p[1] \in 1..Len(g)
                      /\ p[2] \in 1..Len(g[p[1]])
                      /\ g[p[1]][p[2]] })

NextGeneration(g) ==
    [r \in 1..Len(g) |->
        [c \in 1..Len(g[r]) |->
            IF g[r][c] THEN NeighboursOn(g, r, c) \in {2, 3}
            ELSE NeighboursOn(g, r, c) = 3]]

C15_StepIsNextGeneration ==
    (world_ret.op = "step" /\ world.dims[2] > 0) =>
        /\ world_ret.out = "ok"
        /\ WorldCurrent(world) = NextGeneration(WorldOther(world))

----------------------------------------------------------------------------
(* year_2022/day_06.rs: marker_end::<SEQ_LEN>.  A byte is its number; a    *)
(* u32 used as a set of letters is the set of the positions of its one     *)
(* bits, so that & is the intersection, | the union and 0 the empty set.   *)
(* The bytes of MarkerSpec are lowercase letters, as marker_end requires.  *)

\* the longest input of MarkerSpec
MaxData == 5

\* how many letters, from b'a' on, the inputs of MarkerSpec are written in
MaxLetters == 4

U32Bits == 32

\* u32::MAX
U32Max == 0..(U32Bits - 1)

\* b'a'
ByteA == 97

\* 1u32 << (b - b'a')
LetterBit(byte) == {byte - ByteA}

\* ring_buffer.iter().try_fold(0, |a, &v| if a & v != 0 { None } else
\* { Some(a | v) }), from the k-th element on
RECURSIVE TryFoldFrom(_, _, _)
TryFoldFrom(ring_buffer, k, acc) ==
    IF k > Len(ring_buffer) THEN Some(acc)
    ELSE IF acc \cap ring_buffer[k] # {} THEN None
    ELSE TryFoldFrom(ring_buffer, k + 1, acc \cup ring_buffer[k])

\* data.enumerate().find(..).map(|(i, _)| i + 1), from the byte of index i
\* on: the closure stores the byte's bit and tests the buffer.
RECURSIVE MarkerFind(_, _, _, _)
MarkerFind(bytes, len, i, ring_buffer) ==
    IF i >= Len(bytes) THEN None
    ELSE LET stored == [ring_buffer EXCEPT ![(i % len) + 1] = LetterBit(bytes[i + 1])]
         IN  IF i >= len /\ TryFoldFrom(stored, 1, {}) # None
                 THEN Some(i + 1)
                 ELSE MarkerFind(bytes, len, i + 1, stored)

\* marker_end::<len, _>(bytes)
MarkerEnd(len, bytes) == MarkerFind(bytes, len, 0, [k \in 1..len |-> U32Max])

MarkerPending == [tag |-> "Pending"]

\* The call of marker_end on the input of the session.
MarkerEndCall ==
    /\ marker = MarkerPending
    /\ marker' = MarkerEnd(seq_len, data)
    /\ UNCHANGED <<data, seq_len, rest_of_marker>>

\* The values of SEQ_LEN in MarkerSpec; part_01 has 4.
SeqLens == {2, 3, 4}

MarkerBytes == ByteA..(ByteA + MaxLetters - 1)

MarkerInit ==
    /\ seq_len \in SeqLens
    /\ data \in UNION { [1..n -> MarkerBytes] : n \in 0..MaxData }
    /\ marker = MarkerPending
    /\ rest_of_marker_absent

MarkerNext == MarkerEndCall

MarkerSpec == MarkerInit /\ [][MarkerNext]_vars

----------------------------------------------------------------------------
(* C16: marker_end::<N> returns Some(k) for the smallest k such that the   *)
(* N bytes ending at index k - 1 are pairwise distinct, and None iff the   *)
(* input has no N consecutive pairwise distinct bytes, for every input of  *)
(* lowercase letters of any length; an input whose first N bytes are       *)
(* pairwise distinct gives Some(N).                                        *)
(***************************************************************************)
\* The N bytes that end at index k - 1 (the k-th byte) are pairwise
\* distinct.
DistinctUpTo(bytes, len, k) ==
    /\ k >= len
    /\ \A p, q \in (k - len + 1)..k : p # q => bytes[p] # bytes[q]

MarkerEnds(bytes, len) == { k \in 1..Len(bytes) : DistinctUpTo(bytes, len, k) }

FirstMarker(bytes, len) ==
    IF MarkerEnds(bytes, len) = {} THEN None
    ELSE Some(CHOOSE k \in MarkerEnds(bytes, len) :
                  \A m \in MarkerEnds(bytes, len) : k <= m)

C16_MarkerIsFirst ==
    marker # MarkerPending => marker = FirstMarker(data, seq_len)

----------------------------------------------------------------------------
(* year_2022/day_07.rs: FileSystem, a Vec of entries whose directories     *)
(* map the names of their children to indices into the Vec, built by       *)
(* from_iter from Commands and walked by visit_depth_first.  The code's    *)
(* index k into the Vec is the model's k + 1.  A Path is the sequence of   *)
(* pieces that split('/') yields for it.                                   *)

\* the most Commands a session of FsSpec passes to from_iter
MaxCommands == 3

\* the most entries of one ls output in FsSpec
MaxEntries == 2

\* StatEntry
StatDirectory(name) == [dir |-> TRUE, name |-> name]
StatFile(name, size_bytes) == [dir |-> FALSE, name |-> name, size_bytes |-> size_bytes]

\* impl From<&StatEntry> for FileSystemEntry
FileSystemEntryFrom(value) ==
    IF value.dir THEN [dir |-> TRUE, name |-> value.name, children |-> EmptyMap]
    ELSE [dir |-> FALSE, name |-> value.name, size_bytes |-> value.size_bytes]

\* The map closure of Path::segments on the piece of index i.
PathSegment(i, piece) ==
    IF piece = "" THEN (IF i = 0 THEN Ok([seg |-> "Root"]) ELSE Panic)
    ELSE IF piece = ".." THEN Ok([seg |-> "Up"])
    ELSE Ok([seg |-> "Down", d |-> piece])

\* The Command::Jump arm of from_iter, from the k-th piece of path on: nodes
\* and current as the segments leave them, or the panic of an invalid
\* segment, of a child that is missing, or of a descent from a file.
RECURSIVE JumpFrom(_, _, _, _, _)
JumpFrom(entries, stk, cur, path, k) ==
    IF k > Len(path) THEN Ok([nodes |-> stk, current |-> cur])
    ELSE LET seg == PathSegment(k - 1, path[k])
         IN  IF seg.tag = "Panic" THEN Panic
             ELSE IF seg.v.seg = "Root" THEN JumpFrom(entries, <<>>, 0, path, k + 1)
             ELSE IF seg.v.seg = "Up"
                 THEN IF stk = <<>> THEN JumpFrom(entries, stk, 0, path, k + 1)
                      ELSE JumpFrom(entries, SubSeq(stk, 1, Len(stk) - 1),
                                    stk[Len(stk)], path, k + 1)
             ELSE IF ~entries[cur + 1].dir THEN Panic
             ELSE IF seg.v.d \notin DOMAIN entries[cur + 1].children THEN Panic
             ELSE JumpFrom(entries, Append(stk, cur),
                           entries[cur + 1].children[seg.v.d], path, k + 1)

\* d.children.extend(..) of from_iter: the names of the listed entries
\* mapped to base_idx + i, a later entry of a name replacing an earlier.
RECURSIVE ChildrenExtend(_, _, _, _)
ChildrenExtend(children, listed, base_idx, i) ==
    IF i >= Len(listed) THEN children
    ELSE ChildrenExtend(Insert(children, listed[i + 1].name, base_idx + i),
                        listed, base_idx, i + 1)

\* from_iter on Command::Jump(path)
FsJump(path) ==
    /\ fs_pc = "from_iter"
    /\ n_cmds < MaxCommands
    /\ n_cmds' = n_cmds + 1
    /\ LET r == JumpFrom(fs, nodes, current, path, 1)
       IN  IF r.tag = "Panic"
               THEN /\ fs_pc' = "panic"
                    /\ UNCHANGED <<nodes, current>>
               ELSE /\ nodes' = r.v.nodes
                    /\ current' = r.v.current
                    /\ UNCHANGED fs_pc
    /\ UNCHANGED <<fs, visit_stack, visits, rest_of_fs>>

\* from_iter on Command::List(entries)
FsList(listed) ==
    /\ fs_pc = "from_iter"
    /\ n_cmds < MaxCommands
    /\ n_cmds' = n_cmds + 1
    /\ IF fs[current + 1].dir
           THEN LET base_idx == Len(fs)
                    extended == fs \o [i \in 1..Len(listed) |->
                                          FileSystemEntryFrom(listed[i])]
                IN  /\ fs' = [extended EXCEPT ![current + 1].children =
                                  ChildrenExtend(@, listed, base_idx, 0)]
                    /\ UNCHANGED fs_pc
           ELSE /\ fs_pc' = "panic"
                /\ UNCHANGED fs
    /\ UNCHANGED <<nodes, current, visit_stack, visits, rest_of_fs>>

\* The end of from_iter and the call of visit_depth_first on what it built:
\* stack.push((0usize, false)).
VisitDepthFirstCall ==
    /\ fs_pc = "from_iter"
    /\ fs_pc' = "visit"
    /\ visit_stack' = << <<0, FALSE>> >>
    /\ UNCHANGED <<fs, nodes, current, visits, n_cmds, rest_of_fs>>

\* The sequences that hold each element of S once: the orders in which a
\* HashMap may yield its values.
Orders(S) ==
    { q \in [1..Cardinality(S) -> S] :
          \A i, j \in 1..Cardinality(S) : i # j => q[i] # q[j] }

\* One turn of the loop of visit_depth_first, or its end once the stack is
\* empty.
VisitDepthFirstStep ==
    /\ fs_pc = "visit"
    /\ IF visit_stack = <<>>
           THEN /\ fs_pc' = "visited"
                /\ UNCHANGED <<visit_stack, visits>>
           ELSE LET top == visit_stack[Len(visit_stack)]
                    rest == SubSeq(visit_stack, 1, Len(visit_stack) - 1)
                    idx == top[1]
                    details == fs[idx + 1]
                IN  /\ UNCHANGED fs_pc
                    /\ IF details.dir /\ ~top[2]
                           THEN /\ \E order \in Orders(DOMAIN details.children) :
                                       visit_stack' =
                                           Append(rest, <<idx, TRUE>>) \o
                                           [i \in 1..Len(order) |->
                                               <<details.children[order[i]], FALSE>>]
                                /\ UNCHANGED visits
                           ELSE /\ visit_stack' = rest
                                /\ visits' = Append(visits, idx)
    /\ UNCHANGED <<fs, nodes, current, n_cmds, rest_of_fs>>

FsNames == {"x", "y"}

FsPaths == { <<"">>, <<"..">>, <<"x">>, <<"y">>, <<"", "x">>, <<"x", "", "y">> }

FsStatEntries ==
    {StatDirectory(n) : n \in FsNames} \cup {StatFile(n, 1) : n \in FsNames}

FsListings == UNION { [1..n -> FsStatEntries] : n \in 0..MaxEntries }

FsInit ==
    /\ fs = << [dir |-> TRUE, name |-> "/", children |-> EmptyMap] >>
    /\ nodes = <<>>
    /\ current = 0
    /\ visit_stack = <<>>
    /\ visits = <<>>
    /\ fs_pc = "from_iter"
    /\ n_cmds = 0
    /\ rest_of_fs_absent

FsNext ==
    \/ \E path \in FsPaths : FsJump(path)
    \/ \E listed \in FsListings : FsList(listed)
    \/ VisitDepthFirstCall
    \/ VisitDepthFirstStep

FsSpec == FsInit /\ [][FsNext]_vars

----------------------------------------------------------------------------
(* C17: for every FileSystem from_iter builds from Commands, once          *)
(* visit_depth_first is over the visitor was called exactly once for each  *)
(* entry the FileSystem stores, and for every file or directory before     *)
(* the directory that contains it.                                         *)
(***************************************************************************)
TimesVisited(idx) == Cardinality({ i \in 1..Len(visits) : visits[i] = idx })

FirstVisit(idx) == CHOOSE i \in 1..Len(visits) : visits[i] = idx

C17_VisitsEachOnceChildrenFirst ==
    fs_pc = "visited" =>
        /\ \A idx \in 0..(Len(fs) - 1) : TimesVisited(idx) = 1
        /\ \A idx \in 0..(Len(fs) - 1) :
               fs[idx + 1].dir =>
                   \A n \in DOMAIN fs[idx + 1].children :
                       FirstVisit(fs[idx + 1].children[n]) < FirstVisit(idx)

----------------------------------------------------------------------------
(* year_2022/day_05.rs: Stacks, a Vec of stacks of crates, each stack      *)
(* bottom first, and the two ways of applying a StackMove to it.  The      *)
(* code's stack index k is the model's k + 1.                              *)

\* the tallest stack CraneInit draws
MaxHeight == 2

\* the most move lines a session of CraneSpec takes
MaxMoves == 1

\* StackMove::from_str on "move count from from_number to to_number": the
\* stack numbers of the line are one more than the indices of the move.
StackMoveFromStr(count, from_number, to_number) ==
    LET from_stack == from_number - 1
        to_stack == to_number - 1
    IN  IF count = 0 THEN Err("at least one crate")
        ELSE IF from_stack = to_stack THEN Err("different stacks")
        ELSE Ok([count |-> count, from_stack |-> from_stack, to_stack |-> to_stack])

\* The crates of the move put on the destination, former top deepest, and
\* none taken off the source.
ApplyMove9000CopyFrom(stks, m, k) ==
    IF m.from_stack >= Len(stks) \/ m.to_stack >= Len(stks) THEN Panic
    ELSE IF m.count > Len(stks[m.from_stack + 1]) THEN Panic
    ELSE Ok([stks EXCEPT ![m.to_stack + 1] =
                 @ \o [i \in 1..m.count |->
                          stks[m.from_stack + 1][Len(stks[m.from_stack + 1]) + 1 - i]]])

\* The loop of apply_move_9000 from its k-th turn on: the stacks once
\* m.count crates were popped and pushed, or the panic of an index that is
\* no stack or of a pop from an empty stack.
RECURSIVE ApplyMove9000From(_, _, _)
ApplyMove9000From(stks, m, k) ==
    IF k >= m.count THEN Ok(stks)
    ELSE IF m.from_stack >= Len(stks) THEN Panic
    ELSE LET from == stks[m.from_stack + 1]
         IN  IF from = <<>> THEN Panic
             ELSE LET v == from[Len(from)]
                      popped == [stks EXCEPT ![m.from_stack + 1] =
                                     SubSeq(from, 1, Len(from) - 1)]
                  IN  IF m.to_stack >= Len(stks) THEN Panic
                      ELSE ApplyMove9000From(
                               [popped EXCEPT ![m.to_stack + 1] = Append(@, v)],
                               m, k + 1)

ApplyMove9000(stks, m) == ApplyMove9000From(stks, m, 0)

\* The group put down one crate at a time.
ApplyMove9001AsCrane9000(stks, m) == ApplyMove9000From(stks, m, 0)

\* apply_move_9001: the assert, the resize of the destination, the copy of
\* m.count crates from split_point of the source to old_len of the
\* destination, and the set_len of the source.
ApplyMove9001(stks, m) ==
    IF m.from_stack >= Len(stks) THEN Panic
    ELSE LET from_len == Len(stks[m.from_stack + 1])
         IN  IF m.count > from_len THEN Panic
             ELSE IF m.to_stack >= Len(stks) THEN Panic
             ELSE LET split_point == from_len - m.count
                      old_len == Len(stks[m.to_stack + 1])
                      resized == [stks EXCEPT ![m.to_stack + 1] =
                                      @ \o [i \in 1..m.count |-> " "]]
                  IN  IF split_point >= Len(resized[m.from_stack + 1]) THEN Panic
                      ELSE IF old_len >= Len(resized[m.to_stack + 1]) THEN Panic
                      ELSE LET copied ==
                                   [resized EXCEPT ![m.to_stack + 1] =
                                       [i \in 1..Len(@) |->
                                           IF i > old_len
                                               THEN resized[m.from_stack + 1]
                                                        [split_point + i - old_len]
                                               ELSE @[i]]]
                           IN  Ok([copied EXCEPT ![m.from_stack + 1] =
                                      SubSeq(@, 1, split_point)])

\* One move line of part_01 or part_02: parsed, and applied by the crane of
\* the part.
CraneMove(count, from_number, to_number) ==
    /\ crane_pc = "moving"
    /\ n_moves < MaxMoves
    /\ n_moves' = n_moves + 1
    /\ LET parsed == StackMoveFromStr(count, from_number, to_number)
       IN  IF parsed.tag # "Ok"
               THEN /\ crane_pc' = "panic"
                    /\ last_move' = None
                    /\ stacks_before' = stacks
                    /\ UNCHANGED stacks
               ELSE LET r == IF crane_model = "9000"
                                 THEN ApplyMove9000(stacks, parsed.v)
                                 ELSE ApplyMove9001(stacks, parsed.v)
                    IN  /\ last_move' = Some(parsed.v)
                        /\ stacks_before' = stacks
                        /\ IF r.tag = "Panic"
                               THEN /\ crane_pc' = "panic"
                                    /\ UNCHANGED stacks
                               ELSE /\ stacks' = r.v
                                    /\ UNCHANGED crane_pc
    /\ UNCHANGED <<crane_model, rest_of_crane>>

Crates == {"A", "B"}

StackNumbers == 1..3

CraneStacks == UNION { [1..n -> Crates] : n \in 0..MaxHeight }

CraneInit ==
    /\ stacks \in [StackNumbers -> CraneStacks]
    /\ stacks_before = stacks
    /\ crane_model \in {"9000", "9001"}
    /\ last_move = None
    /\ crane_pc = "moving"
    /\ n_moves = 0
    /\ rest_of_crane_absent

CraneNext ==
    \E count \in 0..(MaxHeight + 1), from_number, to_number \in 1..4 :
        CraneMove(count, from_number, to_number)

CraneSpec == CraneInit /\ [][CraneNext]_vars

\* the last move was applied without a panic by the crane of the name
Moved(crane) ==
    /\ crane_model = crane
    /\ last_move # None
    /\ crane_pc = "moving"

Top(stk, count) == SubSeq(stk, Len(stk) - count + 1, Len(stk))

Reversed(q) == [i \in 1..Len(q) |-> q[Len(q) + 1 - i]]

----------------------------------------------------------------------------
(* C18: after apply_move_9000 applied a move whose stacks exist and whose  *)
(* count is at most the height of its source, the source is what it was    *)
(* without its top count crates, the destination is what it was with       *)
(* those crates on top in reversed order (the former top of the source     *)
(* deepest), and every other stack is as it was.  Such a move never ends   *)
(* in a panic.                                                             *)
(***************************************************************************)
C18_Applies(m) ==
    /\ m.from_stack < Len(stacks_before)
    /\ m.to_stack < Len(stacks_before)
    /\ m.count <= Len(stacks_before[m.from_stack + 1])

C18_OneAtATime ==
    (crane_model = "9000" /\ last_move # None /\ C18_Applies(last_move.x)) =>
        LET m == last_move.x
            from == stacks_before[m.from_stack + 1]
            to == stacks_before[m.to_stack + 1]
        IN  /\ crane_pc = "moving"
            /\ stacks[m.from_stack + 1] = SubSeq(from, 1, Len(from) - m.count)
            /\ stacks[m.to_stack + 1] = to \o Reversed(Top(from, m.count))
            /\ \A k \in DOMAIN stacks :
                   k \notin {m.from_stack + 1, m.to_stack + 1} =>
                       stacks[k] = stacks_before[k]

\* Two crates that differ were moved by apply_move_9000.
C18_Witness ==
    /\ Moved("9000")
    /\ last_move.x.count = 2
    /\ stacks[last_move.x.to_stack + 1] = <<"A", "B", "A">>
    /\ stacks_before[last_move.x.from_stack + 1] = <<"A", "B">>

----------------------------------------------------------------------------
(* C19: after apply_move_9001 applied a move between two different stacks  *)
(* that exist, of a count that is at most the height of the source, the    *)
(* source is what it was without its top count crates, the destination is  *)
(* what it was with those crates on top in the order they had, and every   *)
(* other stack is as it was.  This is what apply_move_9000 leaves for the  *)
(* same move with the moved group reversed on the destination, so that     *)
(* the two agree when count = 1 and, for larger counts, exactly when the   *)
(* moved group reads the same in both directions.                          *)
(***************************************************************************)
C19_Applied ==
    /\ crane_model = "9001"
    /\ last_move # None
    /\ C18_Applies(last_move.x)
    /\ last_move.x.from_stack # last_move.x.to_stack

\* what apply_move_9000 leaves of the stacks the last move found
C19_By9000 == ApplyMove9000(stacks_before, last_move.x).v

C19_GroupReversed(stks, m) ==
    [stks EXCEPT ![m.to_stack + 1] =
        SubSeq(@, 1, Len(@) - m.count) \o Reversed(Top(@, m.count))]

C19_WholeGroup ==
    C19_Applied =>
        LET m == last_move.x
            from == stacks_before[m.from_stack + 1]
            to == stacks_before[m.to_stack + 1]
        IN  /\ crane_pc = "moving"
            /\ stacks[m.from_stack + 1] = SubSeq(from, 1, Len(from) - m.count)
            /\ stacks[m.to_stack + 1] = to \o Top(from, m.count)
            /\ \A k \in DOMAIN stacks :
                   k \notin {m.from_stack + 1, m.to_stack + 1} =>
                       stacks[k] = stacks_before[k]
            /\ stacks = C19_GroupReversed(C19_By9000, m)
            /\ m.count = 1 => stacks = C19_By9000
            /\ stacks = C19_By9000 <=>
                   Top(from, m.count) = Reversed(Top(from, m.count))

\* apply_move_9001 moved two crates that differ: the group keeps its order
\* and apply_move_9000 would have left something else.
C19_Witness ==
    /\ C19_Applied
    /\ crane_pc = "moving"
    /\ last_move.x.count = 2
    /\ stacks_before[last_move.x.from_stack + 1] = <<"A", "B">>
    /\ stacks[last_move.x.to_stack + 1] = <<"A", "A", "B">>
    /\ stacks # C19_By9000

\* As stated: the two cranes agree exactly when count = 1.
C19_AsStated ==
    C19_Applied => (stacks = C19_By9000 <=> last_move.x.count = 1)

----------------------------------------------------------------------------
(* year_2015/day_11.rs: next_valid_password, which steps a password of     *)
(* bytes like an odometer until it has a straight and two pairs.  The      *)
(* code's index k into the bytes is the model's k + 1.                     *)

A == 97

Z == 122

INVALID == {105, 108, 111}

\* the letters of a password, "a" first
Alphabet ==
    << "a", "b", "c", "d", "e", "f", "g", "h", "i", "j", "k", "l", "m",
       "n", "o", "p", "q", "r", "s", "t", "u", "v", "w", "x", "y", "z" >>

\* pass.to_owned().into_bytes() on a str of lowercase letters
IntoBytes(letters) ==
    [i \in 1..Len(letters) |->
        A + (CHOOSE k \in 1..Len(Alphabet) : Alphabet[k] = letters[i]) - 1]

\* String::from_utf8_unchecked on bytes of lowercase letters
FromUtf8Unchecked(bytes) == [i \in 1..Len(bytes) |-> Alphabet[bytes[i] - A + 1]]

\* The loop of increment_password from the byte of index k - 1 leftwards.
RECURSIVE IncrementPasswordFrom(_, _)
IncrementPasswordFrom(pw, k) ==
    IF k = 0 THEN pw
    ELSE IF pw[k] = Z THEN IncrementPasswordFrom([pw EXCEPT ![k] = A], k - 1)
    ELSE [pw EXCEPT ![k] = @ + 1]

IncrementPassword(pw) == IncrementPasswordFrom(pw, Len(pw))

\* The while loop of replace_invalid from the byte of index k - 1 on: the
\* first invalid byte is stepped and the inner loop sets all that follow.
RECURSIVE ReplaceInvalidFrom(_, _)
ReplaceInvalidFrom(pw, k) ==
    IF k > Len(pw) THEN pw
    ELSE IF pw[k] \in INVALID
        THEN [i \in 1..Len(pw) |->
                 IF i < k THEN pw[i] ELSE IF i = k THEN pw[k] + 1 ELSE A]
    ELSE ReplaceInvalidFrom(pw, k + 1)

ReplaceInvalid(pw) == ReplaceInvalidFrom(pw, 1)

\* has_straight: some window of three bytes steps by one twice
HasStraight(pw) ==
    \E k \in 1..(Len(pw) - 2) : pw[k + 1] = pw[k] + 1 /\ pw[k + 2] = pw[k + 1] + 1

\* Some window of two equal bytes.
HasOnePair(pw) == \E k \in 1..(Len(pw) - 1) : pw[k + 1] = pw[k]

\* The loop of has_two_pairs from the window at index k - 1 on, seen_pairs
\* holding the bytes of the pairs met so far.
RECURSIVE HasTwoPairsFrom(_, _, _)
HasTwoPairsFrom(pw, k, seen_pairs) ==
    IF k > Len(pw) - 1 THEN FALSE
    ELSE IF pw[k + 1] # pw[k] THEN HasTwoPairsFrom(pw, k + 1, seen_pairs)
    ELSE IF pw[k + 1] \in seen_pairs THEN HasTwoPairsFrom(pw, k + 1, seen_pairs)
    ELSE IF Cardinality(seen_pairs \cup {pw[k + 1]}) > 1 THEN TRUE
    ELSE HasTwoPairsFrom(pw, k + 1, seen_pairs \cup {pw[k + 1]})

HasTwoPairs(pw) == HasTwoPairsFrom(pw, 1, {})

\* One turn of the loop of next_valid_password.
NextValidPasswordLoop ==
    /\ pass_pc = "loop"
    /\ LET stepped == ReplaceInvalid(IncrementPassword(pass_bytes))
       IN  /\ pass_bytes' = stepped
           /\ pass_pc' = IF HasStraight(stepped) /\ HasTwoPairs(stepped)
                             THEN "returned" ELSE "loop"
    /\ UNCHANGED <<pass, rest_of_password>>

\* The passwords next_valid_password is called on: the two of the test,
\* ones before a byte of INVALID in the last three places, ones that hold
\* such a byte, one after the last valid one of five letters and one of
\* three letters.
PasswordSamples ==
    { <<"a", "b", "c", "d", "e", "f", "g", "h">>,
      <<"g", "h", "i", "j", "k", "l", "m", "n">>,
      <<"a", "a", "a", "a", "a">>,
      <<"x", "x", "h", "z", "z">>,
      <<"x", "x", "i", "a", "b">>,
      <<"x", "x", "y", "k", "z">>,
      <<"x", "x", "y", "o", "o">>,
      <<"x", "x", "y", "z", "y">>,
      <<"z", "z", "z", "x", "z">>,
      <<"a", "b", "c">> }

PasswordInit ==
    /\ pass \in { IntoBytes(letters) : letters \in PasswordSamples }
    /\ pass_bytes = pass
    /\ pass_pc = "loop"
    /\ rest_of_password_absent

PasswordNext == NextValidPasswordLoop

PasswordSpec == PasswordInit /\ [][PasswordNext]_vars

----------------------------------------------------------------------------
(* C20: when next_valid_password returns, what it returns has the length   *)
(* of its argument p, holds no i, l or o, holds three letters in a row     *)
(* that each follow the one before in the alphabet, and holds two pairs    *)
(* of equal neighbours of two different letters; it comes after p in       *)
(* odometer order and no password between p and it has these properties.   *)
(* Where no password after p up to all z has them, the odometer has gone   *)
(* round: none from p to all z and none from all a up to the result has    *)
(* them.                                                                   *)
(***************************************************************************)
Letter(ch) == CHOOSE k \in 1..Len(Alphabet) : Alphabet[k] = ch

\* the place of letters in the odometer order of the passwords of its length
RECURSIVE Rank(_)
Rank(letters) ==
    IF letters = <<>> THEN 0
    ELSE Rank(SubSeq(letters, 1, Len(letters) - 1)) * Len(Alphabet)
             + Letter(letters[Len(letters)]) - 1

RECURSIVE Unrank(_, _)
Unrank(r, len) ==
    IF len = 0 THEN <<>>
    ELSE Append(Unrank(r \div Len(Alphabet), len - 1),
                Alphabet[(r % Len(Alphabet)) + 1])

RECURSIVE Power(_, _)
Power(base, e) == IF e = 0 THEN 1 ELSE base * Power(base, e - 1)

Valid(letters) ==
    /\ \A k \in 1..Len(letters) : letters[k] \notin {"i", "l", "o"}
    /\ \E k \in 1..(Len(letters) - 2) :
           /\ Letter(letters[k + 1]) = Letter(letters[k]) + 1
           /\ Letter(letters[k + 2]) = Letter(letters[k]) + 2
    /\ \E j, k \in 1..(Len(letters) - 1) :
           /\ letters[j] = letters[j + 1]
           /\ letters[k] = letters[k + 1]
           /\ letters[j] # letters[k]

\* the length of the longest common prefix of two passwords of one length
RECURSIVE CommonPrefix(_, _)
CommonPrefix(p, q) ==
    IF p = <<>> \/ p[1] # q[1] THEN 0
    ELSE 1 + CommonPrefix(Tail(p), Tail(q))

\* No password of the odometer places lo..hi of the tails that follow the
\* first pre letters of p is valid.
NoneValid(p, pre, lo, hi) ==
    \A r \in lo..hi :
        ~Valid(SubSeq(p, 1, pre) \o Unrank(r, Len(p) - pre))

C20_Result == FromUtf8Unchecked(pass_bytes)

C20_Argument == FromUtf8Unchecked(pass)

C20_FirstValidAfter ==
    pass_pc = "returned" =>
        LET p == C20_Argument
            q == C20_Result
            pre == CommonPrefix(p, q)
            tail_p == Rank(SubSeq(p, pre + 1, Len(p)))
            tail_q == Rank(SubSeq(q, pre + 1, Len(q)))
        IN  /\ Len(q) = Len(p)
            /\ Valid(q)
            /\ IF tail_q > tail_p
                   THEN NoneValid(p, pre, tail_p + 1, tail_q - 1)
                   ELSE /\ NoneValid(p, 0, Rank(p) + 1,
                                     Power(Len(Alphabet), Len(p)) - 1)
                        /\ NoneValid(p, 0, 0, Rank(q) - 1)

\* xxhzz has led to xxyzz, past the passwords that hold i, l or o in their
\* third, fourth or fifth letter.
C20_Witness ==
    /\ pass_pc = "returned"
    /\ C20_Argument = <<"x", "x", "h", "z", "z">>
    /\ C20_Result = <<"x", "x", "y", "z", "z">>

----------------------------------------------------------------------------
(* C21: a turn of val's loop whose popped wire has an operand naming a     *)
(* wire the memo does not hold leaves the memo as it is and the stack as   *)
(* it was before the pop with exactly one more entry on top, the first     *)
(* such operand from the left; every entry of the stack below the top has  *)
(* directly above it the first operand of its expression the memo does     *)
(* not hold; and an entry leaves the stack without a panic only when the   *)
(* memo gains it, so that a wire is popped for its retry only after the    *)
(* dependency pushed above it was resolved.                                *)
(***************************************************************************)
\* The indices, left to right, of the operands of source that name a wire
\* memo does not hold.
C21_Unresolved(source, memo) ==
    { j \in 1..Len(Operands(source)) :
          /\ Operands(source)[j].t = "Ident"
          /\ Operands(source)[j].i \notin DOMAIN memo }

C21_FirstUnresolved(source, memo) ==
    Operands(source)[CHOOSE j \in C21_Unresolved(source, memo) :
                         \A k \in C21_Unresolved(source, memo) : j <= k].i

C21_Chain ==
    pc = "val" =>
        \A i \in 1..(Len(ask_stack) - 1) :
            /\ ask_stack[i] \in DOMAIN connections
            /\ C21_Unresolved(connections[ask_stack[i]], state) # {}
            /\ ask_stack[i + 1] =
                   C21_FirstUnresolved(connections[ask_stack[i]], state)

C21_PushBackThenDependency ==
    /\ []C21_Chain
    /\ [][ (pc = "val" /\ ask_stack # <<>>) =>
               LET top == ask_stack[Len(ask_stack)]
               IN  /\ ( /\ top \in DOMAIN connections
                        /\ C21_Unresolved(connections[top], state) # {} ) =>
                           /\ ask_stack' = ask_stack \o
                                  <<C21_FirstUnresolved(connections[top], state)>>
                           /\ state' = state
                           /\ pc' = "val"
                   /\ (Len(ask_stack') < Len(ask_stack) /\ pc' = "val") =>
                           /\ ask_stack' = SubSeq(ask_stack, 1, Len(ask_stack) - 1)
                           /\ top \in DOMAIN state'
         ]_vars

\* val(c) over c = a AND b and b = a: c is on top for its retry, after a,
\* its first operand, was pushed above it and resolved, and before b.
C21_Witness ==
    /\ pc = "val" /\ wire = wc /\ ask_stack = <<wc>>
    /\ state_at_call = EmptyMap
    /\ DOMAIN state = {wa}
    /\ wc \in DOMAIN connections
    /\ connections[wc] = Gate("And", Ident(wa), Ident(wb))

----------------------------------------------------------------------------
(* part_02 of year_2015/day_07.rs: every line of the input goes to         *)
(* add_connection, then "956 -> b" does, then val("a") is printed.         *)

\* connections after add_connection on each of lines in their order, from
\* conns on, or the panic of the first line that add_connection aborts on.
RECURSIVE AddConnections(_, _)
AddConnections(conns, lines) ==
    IF lines = <<>> THEN Ok(conns)
    ELSE LET p == ParseStatement(Head(lines))
         IN  IF p.tag = "Panic" THEN Panic
             ELSE AddConnections(Insert(conns, p.v.dest, p.v.source), Tail(lines))

\* wires.add_connection("956 -> b")
Part02Override == <<Dec(956), kARROW, wb>>

\* The loop of part_02 over the lines of the input and the override that
\* follows it.
Part02Load(lines) ==
    /\ pc = "idle"
    /\ fed = <<>>
    /\ fed' = lines \o <<Part02Override>>
    /\ LET r == AddConnections(connections, lines \o <<Part02Override>>)
       IN  IF r.tag = "Panic"
               THEN /\ pc' = "panic"
                    /\ ret' = Ret("add_connection", "panic_parse", NoValue, FALSE)
                    /\ UNCHANGED connections
               ELSE /\ connections' = r.v
                    /\ ret' = Ret("add_connection", "ok", NoValue, FALSE)
                    /\ UNCHANGED pc
    /\ UNCHANGED <<state, ask_stack, wire, overflow_checks, late_add,
                   rebound_resolved, state_at_call, pops, inserts,
                   rest_of_wires>>

\* println!("{:?}", wires.val("a")): the call of val
Part02Val ==
    /\ fed # <<>>
    /\ ret.op = "add_connection"
    /\ ValCall(wa)

\* The lines of the inputs of Part02Spec: b bound to a literal, to a, to a
\* gate or not at all; a bound to b directly, through c or in a cycle with b.
Part02Lines ==
    { <<Dec(123), kARROW, wb>>,
      <<wa, kARROW, wb>>,
      <<wc, kLSHIFT, Dec(16), kARROW, wb>>,
      <<Dec(456), kARROW, wa>>,
      <<wb, kARROW, wa>>,
      <<kNOT, wb, kARROW, wa>>,
      <<wb, kOR, wc, kARROW, wa>>,
      <<wb, kRSHIFT, Dec(2), kARROW, wc>> }

Part02Inputs == UNION { [1..n -> Part02Lines] : n \in 0..MaxFed }

Part02Next ==
    \/ \E lines \in Part02Inputs : Part02Load(lines)
    \/ Part02Val
    \/ ValStep

Part02Spec == Init /\ [][Part02Next]_vars

----------------------------------------------------------------------------
(* C22: in part_02 the call val("a") starts with an empty memo and with b  *)
(* bound to the literal 956; it ends as the lines of the input without     *)
(* those that bind b, together with b = 956, define a: with that value,    *)
(* or with the abort they define; and every value the memo holds is the    *)
(* one the overridden bindings define, b's being 956.                      *)
(***************************************************************************)
\* the lines of the input of part_02
C22_Input == SubSeq(fed, 1, Len(fed) - 1)

\* the lines of those given that do not bind b
RECURSIVE C22_NotBindingB(_)
C22_NotBindingB(lines) ==
    IF lines = <<>> THEN <<>>
    ELSE IF ParseStatement(Head(lines)).v.dest = wb
        THEN C22_NotBindingB(Tail(lines))
    ELSE <<Head(lines)>> \o C22_NotBindingB(Tail(lines))

C22_Overridden ==
    Insert(LoadAll(C22_NotBindingB(C22_Input)), wb, Value(Literal(956)))

C22_OverrideWins ==
    /\ ret.op = "val" =>
           /\ state_at_call = EmptyMap
           /\ connections = C22_Overridden
           /\ \A n \in DOMAIN state :
                  Ok(state[n]) = ValueOf(C22_Overridden, n, overflow_checks)
           /\ wb \in DOMAIN state => state[wb] = 956
    /\ ValEnded => ValOutcome = ValueOf(C22_Overridden, wa, overflow_checks)

\* The input binds b to 123 and a to NOT b; part_02 prints NOT 956.
C22_Witness ==
    /\ ValReturned
    /\ fed = << <<Dec(123), kARROW, wb>>, <<kNOT, wb, kARROW, wa>>,
                Part02Override >>
    /\ wire = wa
    /\ ret.v = 64579

----------------------------------------------------------------------------
(* C23: while val(t) runs its loop and what t reaches under connections    *)
(* is acyclic and fully bound, ask_stack, when not empty, has t at its     *)
(* bottom, every entry below the top names the entry directly above it as  *)
(* an operand of its expression, no wire is on the stack twice, and the    *)
(* stack holds at most as many entries as connections binds wires.         *)
(***************************************************************************)
C23_WellFounded ==
    /\ Acyclic(connections, EmptyMap, wire)
    /\ FullyBound(connections, EmptyMap, wire)

C23_StackIsChain ==
    (pc = "val" /\ C23_WellFounded) =>
        /\ ask_stack # <<>> => ask_stack[1] = wire
        /\ \A i \in 1..(Len(ask_stack) - 1) :
               ask_stack[i + 1] \in Refs(connections[ask_stack[i]])
        /\ \A i, j \in 1..Len(ask_stack) : i # j => ask_stack[i] # ask_stack[j]
        /\ Len(ask_stack) <= Cardinality(DOMAIN connections)

\* val(c) over c = NOT b, b = a, a = 123: the stack is c, b, a, as deep as
\* connections has wires.
C23_Witness ==
    /\ pc = "val" /\ C23_WellFounded
    /\ wire = wc
    /\ ask_stack = <<wc, wb, wa>>
    /\ Cardinality(DOMAIN connections) = 3

----------------------------------------------------------------------------
(* C24: during and after a call val(t) over bindings that are acyclic and  *)
(* fully bound where t reaches them, every wire was inserted into the      *)
(* memo at most once in the call, and was popped off ask_stack at most     *)
(* once more than its expression has operands that name a wire, of which   *)
(* there are at most two.                                                  *)
(***************************************************************************)
\* how many operands of source name a wire
C24_References(source) ==
    Cardinality({ j \in 1..Len(Operands(source)) : Operands(source)[j].t = "Ident" })

C24_BoundedRetries ==
    (ret.op = "val" /\ C23_WellFounded) =>
        /\ \A n \in DOMAIN inserts : inserts[n] <= 1
        /\ \A n \in DOMAIN pops :
               /\ n \in DOMAIN connections
               /\ C24_References(connections[n]) <= 2
               /\ pops[n] <= C24_References(connections[n]) + 1

\* val(c) over c = a AND b, b = a, a = 123 has returned: c was popped three
\* times, a and b once each, and each was inserted once.
C24_Witness ==
    /\ ValReturned /\ C23_WellFounded
    /\ wire = wc
    /\ connections[wc] = Gate("And", Ident(wa), Ident(wb))
    /\ pops = [x \in {wa, wb, wc} |-> IF x = wc THEN 3 ELSE 1]
    /\ inserts = [x \in {wa, wb, wc} |-> 1]

----------------------------------------------------------------------------
(* part_02 of year_2015/day_18.rs: enable_corners on the World read, then  *)
(* step and enable_corners in turn.  The loop's count of 100 is left       *)
(* open: every number of turns is a session.                               *)

\* w.enable_corners(), before the loop and at the end of each of its turns
Lights02EnableCorners ==
    /\ world_ret.op \in {"from_data", "step"}
    /\ WorldEnableCorners

\* w.step(), at the start of each turn of the loop
Lights02Step ==
    /\ world_ret.op = "enable_corners"
    /\ WorldStep

Lights02Next == Lights02EnableCorners \/ Lights02Step

Lights02Spec == WorldInit /\ [][Lights02Next]_vars

----------------------------------------------------------------------------
(* C25: in part_02, on every grid that has a cell, no call aborts, and     *)
(* after every enable_corners, the one before the first step and the one   *)
(* after each step, which leave the grid the next step reads or the final  *)
(* grid, the four corner cells of the current grid are on.                 *)
(***************************************************************************)
C25_CornersOn ==
    LET g == WorldCurrent(world)
    IN  /\ g[1][1]
        /\ g[1][Len(g[1])]
        /\ g[Len(g)][1]
        /\ g[Len(g)][Len(g[Len(g)])]

C25_CornersAlwaysOn ==
    world.dims[2] > 0 =>
        /\ world_ret.out = "ok"
        /\ world_ret.op = "enable_corners" => C25_CornersOn

\* The part of C25 that holds: whenever enable_corners returned, the grid
\* that the next step reads has its corners on.
C25_CornersOnWhenRead ==
    (world.dims[2] > 0 /\ world_ret = WorldRet("enable_corners", "ok")) =>
        C25_CornersOn

----------------------------------------------------------------------------
(* Stacks of year_2022/day_05.rs used as its tests use it: StackMoves      *)
(* built field by field and handed to apply_move_9000 or apply_move_9001,  *)
(* in any mix, on the Stacks of the tests.                                 *)

\* the most calls of a session of StacksSpec
MaxCalls == 3

\* One call of apply_move_9000 or apply_move_9001 on the StackMove m.
StacksApplyMove(crane, m) ==
    /\ crane_pc = "moving"
    /\ n_moves < MaxCalls
    /\ n_moves' = n_moves + 1
    /\ crane_model' = crane
    /\ last_move' = Some(m)
    /\ stacks_before' = stacks
    /\ LET r == IF crane = "9000" THEN ApplyMove9000(stacks, m)
                ELSE ApplyMove9001(stacks, m)
       IN  IF r.tag = "Panic"
               THEN /\ crane_pc' = "panic"
                    /\ UNCHANGED stacks
               ELSE /\ stacks' = r.v
                    /\ UNCHANGED crane_pc
    /\ UNCHANGED rest_of_crane

\* The Stacks of tests::apply_moves_9000 and tests::apply_moves_9001.
TestStacks == << <<"1", "Z", "N">>, <<"2", "M", "C", "D">>, <<"3", "P">> >>

\* The StackMoves between two different stacks of TestStacks, of counts
\* from 1 to one more than its tallest stack.
StackMoves ==
    { [count |-> c, from_stack |-> f, to_stack |-> t] :
          c \in 1..5, f \in 0..2, t \in 0..2 } \ 
    { [count |-> c, from_stack |-> f, to_stack |-> f] : c \in 1..5, f \in 0..2 }

StacksInit ==
    /\ stacks = TestStacks
    /\ stacks_before = TestStacks
    /\ crane_model \in {"9000", "9001"}
    /\ last_move = None
    /\ crane_pc = "moving"
    /\ n_moves = 0
    /\ rest_of_crane_absent

StacksNext ==
    \E crane \in {"9000", "9001"}, m \in StackMoves : StacksApplyMove(crane, m)

StacksSpec == StacksInit /\ [][StacksNext]_vars

----------------------------------------------------------------------------
(* C26: every call of apply_move_9000 or apply_move_9001, in any mix of    *)
(* the two, with a move between two different stacks of a count of at      *)
(* least 1 and at most the height of the source, ends without a panic,     *)
(* leaves the number of stacks and, for every crate, the number of its     *)
(* occurrences over all stacks as they were, and leaves every stack but    *)
(* the source and the destination unchanged; so the crates of the stacks   *)
(* are, in every state, those the Stacks started with.                     *)
(***************************************************************************)
RECURSIVE C26_Occurrences(_, _)
C26_Occurrences(stks, c) ==
    IF stks = <<>> THEN 0
    ELSE Cardinality({ i \in 1..Len(Head(stks)) : Head(stks)[i] = c })
             + C26_Occurrences(Tail(stks), c)

C26_CratesOf(stks) ==
    UNION { { stks[k][i] : i \in 1..Len(stks[k]) } : k \in 1..Len(stks) }

C26_SameCrates(s1, s2) ==
    /\ Len(s1) = Len(s2)
    /\ \A c \in C26_CratesOf(s1) \cup C26_CratesOf(s2) \cup {" "} :
           C26_Occurrences(s1, c) = C26_Occurrences(s2, c)

C26_ValidMove(stks, m) ==
    /\ m.count >= 1
    /\ m.from_stack # m.to_stack
    /\ m.from_stack < Len(stks) /\ m.to_stack < Len(stks)
    /\ m.count <= Len(stks[m.from_stack + 1])

C26_CratesPreserved ==
    /\ [](crane_pc = "moving" => C26_SameCrates(stacks, TestStacks))
    /\ [][ (n_moves' # n_moves /\ C26_ValidMove(stacks, last_move'.x)) =>
               /\ crane_pc' = "moving"
               /\ C26_SameCrates(stacks', stacks)
               /\ \A k \in 1..Len(stacks) :
                      k \notin {last_move'.x.from_stack + 1,
                                last_move'.x.to_stack + 1} =>
                          stacks'[k] = stacks[k]
         ]_vars

\* apply_move_9001 moved C, D onto the first stack as a group, then
\* apply_move_9000 moved three crates of that stack onto the third.
C26_Witness ==
    /\ crane_pc = "moving"
    /\ n_moves = 2
    /\ crane_model = "9000"
    /\ stacks_before = << <<"1", "Z", "N", "C", "D">>, <<"2", "M">>, <<"3", "P">> >>
    /\ stacks = << <<"1", "Z">>, <<"2", "M">>, <<"3", "P", "D", "C", "N">> >>

----------------------------------------------------------------------------
(* StackMove::from_str of year_2022/day_05.rs on the text of a line.  A    *)
(* line is the sequence of the pieces s.split(' ') yields, a piece the     *)
(* sequence of its characters.                                             *)

\* usize::MAX, which stands here as the largest integer of the model
UsizeMax == 2147483647

\* str::parse::<usize>: an optional '+' and at least one digit, all digits
RECURSIVE ParseUsizeFrom(_, _, _)
ParseUsizeFrom(s, i, acc) ==
    IF i > Len(s) THEN Ok(acc)
    ELSE IF ~IsAsciiDigit(s[i]) THEN Err("invalid digit")
    ELSE ParseUsizeFrom(s, i + 1, acc * 10 + DigitValue(s[i]))

ParseUsize(s) ==
    IF s = <<>> THEN Err("empty")
    ELSE IF s[1] = "+"
        THEN IF Len(s) = 1 THEN Err("invalid digit") ELSE ParseUsizeFrom(s, 2, 0)
    ELSE ParseUsizeFrom(s, 1, 0)

\* parts.next().context(..)?.parse()? for the k-th of the parts
\* s.split(' ').skip(1).step_by(2), the piece of index 2 * k - 1
MovePart(pieces, k) ==
    IF 2 * k > Len(pieces) THEN Err("input should be a move")
    ELSE ParseUsize(pieces[2 * k])

\* n - 1 on usize: below 0 a panic with overflow checks, usize::MAX without
MinusOne(n, checks) ==
    IF n >= 1 THEN Ok(n - 1) ELSE IF checks THEN Panic ELSE Ok(UsizeMax)

\* StackMove::from_str
StackMoveFromLine(pieces, checks) ==
    LET count == MovePart(pieces, 1)
    IN  IF count.tag # "Ok" THEN count
        ELSE LET from_number == MovePart(pieces, 2)
             IN  IF from_number.tag # "Ok" THEN from_number
                 ELSE LET from_stack == MinusOne(from_number.v, checks)
                      IN  IF from_stack.tag # "Ok" THEN from_stack
                          ELSE LET to_number == MovePart(pieces, 3)
                               IN  IF to_number.tag # "Ok" THEN to_number
                                   ELSE LET to_stack == MinusOne(to_number.v, checks)
                                        IN  IF to_stack.tag # "Ok" THEN to_stack
                                            ELSE IF count.v = 0
                                                THEN Err("at least one crate")
                                            ELSE IF from_stack.v = to_stack.v
                                                THEN Err("different stacks")
                                            ELSE Ok([count |-> count.v,
                                                     from_stack |-> from_stack.v,
                                                     to_stack |-> to_stack.v])

\* One call of StackMove::from_str.
StackMoveFromStrCall ==
    /\ move_ret = None
    /\ move_ret' = Some(StackMoveFromLine(move_line, move_checks))
    /\ UNCHANGED <<move_line, move_checks, rest_of_stackmove>>

kMove == <<"m", "o", "v", "e">>
kFrom == <<"f", "r", "o", "m">>
kTo == <<"t", "o">>

\* The pieces tried where a line has a number.
MoveFields ==
    { <<"0">>, <<"1">>, <<"2">>, <<"1", "0">>, <<"+", "2">>, <<"-", "1">>,
      <<"x">>, <<"+">>, <<>> }

\* Lines of the shape move c from f to t, and what is left of them when
\* they end early.
MoveLines ==
    LET whole == { <<kMove, c, kFrom, f, kTo, t>> :
                       c \in MoveFields, f \in MoveFields, t \in MoveFields }
    IN  { SubSeq(l, 1, n) : l \in whole, n \in 1..6 }

MoveInit ==
    /\ move_line \in MoveLines
    /\ move_checks \in BOOLEAN
    /\ move_ret = None
    /\ rest_of_stackmove_absent

MoveNext == StackMoveFromStrCall

MoveSpec == MoveInit /\ [][MoveNext]_vars

----------------------------------------------------------------------------
(* C27: StackMove::from_str never aborts; it returns Ok exactly for the    *)
(* lines that have a count, a source number and a destination number,      *)
(* each written as a number, with a count of at least 1, stack numbers of  *)
(* at least 1 and two different stack numbers, and Err for every other     *)
(* line; an Ok result holds the count and the two stack numbers less one.  *)
(***************************************************************************)
\* s is the decimal text of a number, with or without a '+' before it
C27_IsNumber(s) ==
    LET digits == IF s # <<>> /\ s[1] = "+" THEN Tail(s) ELSE s
    IN  /\ digits # <<>>
        /\ \A i \in 1..Len(digits) : IsAsciiDigit(digits[i])

RECURSIVE C27_Number(_)
C27_Number(s) ==
    IF s = <<>> THEN 0
    ELSE IF s[1] = "+" THEN C27_Number(Tail(s))
    ELSE C27_Number(SubSeq(s, 1, Len(s) - 1)) * 10 + DigitValue(s[Len(s)])

C27_ValidLine(pieces) ==
    /\ Len(pieces) >= 6
    /\ \A k \in {2, 4, 6} : C27_IsNumber(pieces[k])
    /\ C27_Number(pieces[2]) >= 1
    /\ C27_Number(pieces[4]) >= 1
    /\ C27_Number(pieces[6]) >= 1
    /\ C27_Number(pieces[4]) # C27_Number(pieces[6])

C27_ErrNotAbort ==
    move_ret # None =>
        LET r == move_ret.x
        IN  /\ r.tag # "Panic"
            /\ r.tag = "Ok" <=> C27_ValidLine(move_line)
            /\ r.tag = "Ok" =>
                   /\ r.v.count >= 1
                   /\ r.v.from_stack # r.v.to_stack
                   /\ r.v.count = C27_Number(move_line[2])
                   /\ r.v.from_stack = C27_Number(move_line[4]) - 1
                   /\ r.v.to_stack = C27_Number(move_line[6]) - 1

====
